---- MODULE Spec2Model ----
(***************************************************************************)
(* Model of the execution gateway of src/fast_api_custom.py:               *)
(*   - the /runv3 streaming bridge (pump_agent + event_generator),         *)
(*   - the /run_live duplex session handler,                               *)
(*   - the runner cache (_get_runner_async, AgentChangeEventHandler),      *)
(*   - the trace store (ApiServerSpanExporter, InMemoryExporter),          *)
(*   - the shutdown sequence (internal_lifespan).                          *)
(* Each subsystem has its own specification (SpecV3, SpecV3Fault,          *)
(* SpecLive, SpecRunner, SpecTrace, SpecShutdown) over the shared variable *)
(* list; the variables of the other subsystems stay at their initial       *)
(* values.                                                                 *)
(***************************************************************************)
EXTENDS Integers, Sequences, FiniteSets, TLC

\* ------------------------------------------------------------------ bounds
\* Longest event sequence a runner produces in one /runv3 execution.
MaxEvents == 2
\* Most keep-alive comments one /runv3 stream emits in the model.
MaxHeartbeats == 2

VARIABLES
  \* ---- /runv3 ----
  req,           \* the AgentRunRequest: its session_id
  plan,          \* kinds of the events runner.run_async will yield, in order
  planFails,     \* TRUE: run_async raises after the planned events
  pumpPc,        \* pump_task: "created","running","cancelling","done","cancelled"
  pumpOutcome,   \* how pump_agent left its try block: "none","completed","failed","cancelled"
  produced,      \* number of events taken from runner.run_async so far
  queue,         \* the asyncio.Queue between pump_agent and event_generator
  genPc,         \* event_generator: "notstarted","waiting","closed"
  frames,        \* ServerSentEvents written to the client, in order
  disconnected,  \* the client has gone away
  heartbeats     \* number of keep-alive comments emitted

v3vars == <<req, plan, planFails, pumpPc, pumpOutcome, produced, queue, genPc,
            frames, disconnected, heartbeats>>

VARIABLES
  \* ---- /run_live ----
  lhPc,         \* agent_live_run: "connect","check","waiting","closing","returned"
  wsAccepted,   \* websocket.accept() has been performed
  liveSession,  \* session_service.get_session found the session
  fwdPc,        \* forward_events task: "none","running","done","raised","cancelled"
  rcvPc,        \* process_messages task: "none","reading","done","raised","cancelled"
  fwdExc,       \* exception forward_events ended with
  rcvExc,       \* exception process_messages ended with
  inbox,        \* client messages sent and not yet read by receive_text
  msgsSent,     \* number of messages the client has sent
  liveQueue,    \* LiveRequests put on live_request_queue, in order
  liveEvents,   \* number of events forward_events has sent to the client
  clientGone,   \* the client has closed the socket
  invalidSeen,  \* a message has failed LiveRequest validation
  wakeDone,     \* the `done` set asyncio.wait returned
  wakePending,  \* the `pending` set asyncio.wait returned
  caught,       \* exception re-raised by task.result() in the handler
  closeSent     \* close frames the server has sent, in order

livevars == <<lhPc, wsAccepted, liveSession, fwdPc, rcvPc, fwdExc, rcvExc,
              inbox, msgsSent, liveQueue, liveEvents, clientGone, invalidSeen,
              wakeDone, wakePending, caught, closeSent>>

VARIABLES
  \* ---- runner cache ----
  runner_dict,       \* app name -> cached Runner (NoRunner when absent)
  runners_to_clean,  \* _runners_to_clean: names marked stale
  app_name_g,        \* the module global _app_name
  loaderCache,       \* names whose agent is in the AgentLoader cache
  runnerApp,         \* app_name of each constructed Runner
  runnerState,       \* "unbuilt","live","closing","closed"
  nextId,            \* identity of the next Runner constructed
  calls,             \* the requests that call _get_runner_async
  loop,              \* request running a synchronous section on the event loop
  watcher,           \* the watchdog observer thread
  changes,           \* number of file modifications so far
  epochReturned,     \* Runners returned for an app since its last stale mark
  epochBuilt         \* Runners constructed for an app since its last stale mark

runnervars == <<runner_dict, runners_to_clean, app_name_g, loaderCache,
                runnerApp, runnerState, nextId, calls, loop, watcher,
                changes, epochReturned, epochBuilt>>

VARIABLES
  \* ---- trace store ----
  trace_dict,          \* event id -> attributes of a span (NoEntry when absent)
  session_trace_dict,  \* session id -> trace ids indexed for it, in order
  spans                \* InMemoryExporter._spans: every span exported, in order

tracevars == <<trace_dict, session_trace_dict, spans>>

VARIABLES
  \* ---- shutdown ----
  shutPc,          \* internal_lifespan: "serving","closing","exited"
  reloadAgents,    \* the reload_agents option (an observer thread runs)
  lifespanRaised,  \* the body of the lifespan context ended with an exception
  observerAlive,   \* the watchdog observer thread has not been joined
  closeTask,       \* per Runner, its close task: "none","running","ok","failed","cancelled"
  propagated       \* exception that left internal_lifespan

shutvars == <<shutPc, reloadAgents, lifespanRaised, observerAlive, closeTask,
              propagated>>

VARIABLES
  \* ---- agent definitions behind the runner cache ----
  diskVer,     \* per app, the version of its definition files on disk
  loaderVer,   \* per app, the version the AgentLoader cache holds
  handledVer,  \* per app, the disk version when on_modified last returned for it
  noted,       \* per app, on_modified calls for it since its last _get_runner_async
  callVer,     \* per request, the version load_agent gave it
  needVer,     \* per request, handledVer of its app when it entered _get_runner_async
  runnerVer    \* per Runner, the version of the agent it was built from

defvars == <<diskVer, loaderVer, handledVer, noted, callVer, needVer, runnerVer>>

VARIABLES
  \* ---- run_eval ----
  evalSet,            \* the eval set of the store: its case ids in order, or NoEvalSet
  evalPc,             \* run_eval: "idle","running","responded"
  evalIds,            \* req.eval_ids of the request being served
  toRun,              \* the cases handed to run_evals
  replayed,           \* the cases run_evals has replayed for this request, in order
  run_eval_results,   \* the list run_eval returns
  eval_case_results,  \* the list run_eval hands to the results store
  evalResponses,      \* the responses of the requests so far, in order
  resultsStore,       \* the eval set results the results store holds
  storeClock          \* time.time() of the results store, in saves

evalvars == <<evalSet, evalPc, evalIds, toRun, replayed, run_eval_results,
              eval_case_results, evalResponses, resultsStore, storeClock>>

VARIABLES
  \* ---- /runv2 ----
  v2Pc,            \* event_generator of /runv2: "notstarted","streaming","closed"
  v2Frames,        \* the frames written to the client, in order
  v2Produced,      \* number of events taken from runner.run_async so far
  v2Outcome,       \* the execution: "none","completed","failed","abandoned"
  v2Disconnected   \* the client has gone away

v2vars == <<v2Pc, v2Frames, v2Produced, v2Outcome, v2Disconnected>>

vars == <<v3vars, livevars, runnervars, tracevars, shutvars, defvars, evalvars,
          v2vars>>

NotV3 == <<livevars, runnervars, tracevars, shutvars, defvars, evalvars, v2vars>>
NotLive == <<v3vars, runnervars, tracevars, shutvars, defvars, evalvars, v2vars>>
NotRunner == <<v3vars, livevars, tracevars, shutvars, evalvars, v2vars>>
NotTrace == <<v3vars, livevars, runnervars, shutvars, defvars, evalvars, v2vars>>
NotShutdown == <<v3vars, livevars, tracevars, defvars, evalvars, v2vars>>
NotEval == <<v3vars, livevars, runnervars, tracevars, shutvars, defvars, v2vars>>
NotV2 == <<livevars, runnervars, tracevars, shutvars, defvars, evalvars>>

\* ------------------------------------------------------------------ /runv3
\* Session ids a request can carry.
SessionIds == {"s1", "s2"}

\* A part of an Event's content: the name of its functionCall ("None" when
\* the part has none) and the url argument of the call ("" when the call
\* has no args or no url).
NoCallName == "None"
NoUrl == ""
TextPart == [functionCall |-> NoCallName, url |-> NoUrl]
CallPart(name, u) == [functionCall |-> name, url |-> u]

\* The contents (sequences of parts) of the Events an execution can yield.
EventKinds ==
  { <<CallPart("search", "u1")>>,
    <<CallPart("render_session", "u1")>>,
    <<CallPart("render_session", NoUrl)>>,
    <<TextPart, CallPart("render_session", "u2")>>,
    <<CallPart("render_session", NoUrl), CallPart("render_session", "u1")>> }

\* All event-kind sequences of length at most n.
RECURSIVE SeqsUpTo(_, _)
SeqsUpTo(S, n) ==
  IF n = 0 THEN {<<>>}
  ELSE LET shorter == SeqsUpTo(S, n - 1)
       IN shorter \cup {Append(s, x) : s \in {t \in shorter : Len(t) = n - 1}, x \in S}

\* The i-th Event of the execution.
Ev(i) == [id |-> i, kind |-> "Event", parts |-> plan[i]]
\* queue.put(None)
Sentinel == [id |-> 0, kind |-> "None", parts |-> <<>>]
\* EventClass(type="agent_error", message=str(e))
ErrorEvent == [id |-> 0, kind |-> "agent_error", parts |-> <<>>]

\* queue = asyncio.Queue(): no maxsize, so the queue is never full and
\* `await queue.put(item)` returns without suspending.
HasRoomForOne(q) == Len(q) < 1
HasRoom(q) == TRUE

\* asyncio.Queue is FIFO: put appends at the tail.
EnqueueFront(q, item) == <<item>> \o q
Enqueue(q, item) == Append(q, item)

\* finally: await queue.put(None)  # sentinel
NoSentinel(q) == q
PutSentinel(q) == Enqueue(q, Sentinel)

\* data=f'{{"type":"stream_start","session_id":"{req.session_id}"}}'
StartFrameAnySession == [event |-> "stream_start", ev |-> 0, session_id |-> "s1"]
StartFrame == [event |-> "stream_start", ev |-> 0, session_id |-> req.session_id]
CompleteFrame == [event |-> "stream_complete", ev |-> 0]
KeepAlive == [event |-> "keep-alive", ev |-> 0]

\* The frame event_generator yields for a dequeued Event: a render_session
\* frame when a function call named render_session carries a non-empty url,
\* an agent_event frame otherwise.
\* The scan of the parts: the url of the first part whose functionCall is
\* named render_session (the loop breaks there), None when there is none.
NoRenderCall == "None"
RECURSIVE RenderSessionUrl(_)
RenderSessionUrl(parts) ==
  IF parts = <<>> THEN NoRenderCall
  ELSE IF Head(parts).functionCall = "render_session" THEN Head(parts).url
  ELSE RenderSessionUrl(Tail(parts))

\* if render_session_url: None and "" are both false.
UrlGivenOrNot(u) == u # NoRenderCall
UrlGiven(u) == u \notin {NoRenderCall, NoUrl}

\* item.model_dump_json(exclude_none=True, by_alias=True)
model_dump_json(item) == [id |-> item.id, parts |-> item.parts]

FrameOf(item) ==
  IF UrlGiven(RenderSessionUrl(item.parts))
  THEN [event |-> "render_session", ev |-> item.id,
        url |-> RenderSessionUrl(item.parts)]
  ELSE [event |-> "agent_event", ev |-> item.id,
        payload |-> model_dump_json(item)]

\* The frame of the generator's `except Exception` branch.
ErrorFrame == [event |-> "error", ev |-> 0]

\* `break` on the sentinel leaves the while loop: the generator yields
\* stream_complete and ends.
StayInLoop == "waiting"
LeaveLoop == "closed"

\* `continue` after the keep-alive: back to wait_for(queue.get(), ...).
TimeoutEndsLoop == "closed"
AfterTimeout == "waiting"

PumpDone(pc) == pc \in {"done", "cancelled"}

\* finally: if not pump_task.done(): pump_task.cancel()
Finally(pc) == IF PumpDone(pc) THEN pc ELSE "cancelling"

InitV3Vars ==
  /\ req \in [session_id : SessionIds]
  /\ plan \in SeqsUpTo(EventKinds, MaxEvents)
  /\ planFails \in BOOLEAN
  /\ pumpPc = "created"
  /\ pumpOutcome = "none"
  /\ produced = 0
  /\ queue = <<>>
  /\ genPc = "notstarted"
  /\ frames = <<>>
  /\ disconnected = FALSE
  /\ heartbeats = 0

\* First step of pump_task: enters the shielded scope and run_async, and
\* suspends waiting for the first event.
PumpStart ==
  /\ pumpPc = "created"
  /\ pumpPc' = "running"
  /\ UNCHANGED NotV3
  /\ UNCHANGED <<req, plan, planFails, pumpOutcome, produced, queue, genPc, frames,
                 disconnected, heartbeats>>

\* async for ev in runner.run_async(...): await queue.put(ev)
PumpEvent ==
  /\ pumpPc = "running"
  /\ HasRoom(queue)
  /\ produced < Len(plan)
  /\ produced' = produced + 1
  /\ queue' = Enqueue(queue, Ev(produced + 1))
  /\ UNCHANGED NotV3
  /\ UNCHANGED <<req, plan, planFails, pumpPc, pumpOutcome, genPc, frames,
                 disconnected, heartbeats>>

\* run_async is exhausted: log, then finally: queue.put(None).
PumpComplete ==
  /\ pumpPc = "running"
  /\ HasRoom(queue)
  /\ produced = Len(plan)
  /\ ~planFails
  /\ queue' = PutSentinel(queue)
  /\ pumpPc' = "done"
  /\ pumpOutcome' = "completed"
  /\ UNCHANGED NotV3
  /\ UNCHANGED <<req, plan, planFails, produced, genPc, frames, disconnected,
                 heartbeats>>

\* run_async raises: except Exception builds an error Event (put on the
\* queue) or, when the Event class rejects the fields, puts None; the
\* finally clause then puts the sentinel.
PumpRaise ==
  /\ pumpPc = "running"
  /\ HasRoom(queue)
  /\ produced = Len(plan)
  /\ planFails
  /\ \E ctorOk \in BOOLEAN :
       queue' = PutSentinel(Enqueue(queue, IF ctorOk THEN ErrorEvent ELSE Sentinel))
  /\ pumpPc' = "done"
  /\ pumpOutcome' = "failed"
  /\ UNCHANGED NotV3
  /\ UNCHANGED <<req, plan, planFails, produced, genPc, frames, disconnected,
                 heartbeats>>

\* pump_task.cancel() delivers CancelledError at the await inside run_async
\* (CancelScope(shield=True) holds off enclosing cancel scopes, not
\* Task.cancel()): it is no Exception, so only the finally clause runs.
PumpCancelled ==
  /\ pumpPc = "cancelling"
  /\ HasRoom(queue)
  /\ queue' = PutSentinel(queue)
  /\ pumpPc' = "cancelled"
  /\ pumpOutcome' = "cancelled"
  /\ UNCHANGED NotV3
  /\ UNCHANGED <<req, plan, planFails, produced, genPc, frames, disconnected,
                 heartbeats>>

\* event_generator is first iterated: yields stream_start.  pump_task was
\* scheduled by create_task before the response started, so it has taken its
\* first step by then.
GenStart ==
  /\ genPc = "notstarted"
  /\ pumpPc # "created"
  /\ ~disconnected
  /\ frames' = Append(frames, StartFrame)
  /\ genPc' = "waiting"
  /\ UNCHANGED NotV3
  /\ UNCHANGED <<req, plan, planFails, pumpPc, pumpOutcome, produced, queue,
                 disconnected, heartbeats>>

\* wait_for(queue.get(), HEARTBEAT_EVERY) times out: keep-alive, continue.
GenHeartbeat ==
  /\ genPc = "waiting"
  /\ queue = <<>>
  /\ heartbeats < MaxHeartbeats
  /\ frames' = Append(frames, KeepAlive)
  /\ heartbeats' = heartbeats + 1
  /\ genPc' = AfterTimeout
  /\ UNCHANGED NotV3
  /\ UNCHANGED <<req, plan, planFails, pumpPc, pumpOutcome, produced, queue,
                 disconnected>>

\* queue.get() returns an item: the sentinel ends the loop (stream_complete,
\* then the finally clause), an Event is framed and yielded.
GenDequeue ==
  /\ genPc = "waiting"
  /\ queue # <<>>
  /\ queue' = Tail(queue)
  /\ IF Head(queue) = Sentinel
     THEN /\ frames' = Append(frames, CompleteFrame)
          /\ genPc' = LeaveLoop
          /\ pumpPc' = Finally(pumpPc)
     ELSE /\ frames' = Append(frames, FrameOf(Head(queue)))
          /\ UNCHANGED <<genPc, pumpPc>>
  /\ UNCHANGED NotV3
  /\ UNCHANGED <<req, plan, planFails, pumpOutcome, produced, disconnected,
                 heartbeats>>

\* The client disconnects.  A generator that was never iterated is dropped
\* without running; a started one is torn down (CancelledError at its await,
\* or GeneratorExit at its yield) and runs its finally clause.
ClientDisconnect ==
  /\ ~disconnected
  /\ genPc # "closed"
  /\ disconnected' = TRUE
  /\ genPc' = "closed"
  /\ pumpPc' = IF genPc = "notstarted" THEN pumpPc ELSE Finally(pumpPc)
  /\ UNCHANGED NotV3
  /\ UNCHANGED <<req, plan, planFails, pumpOutcome, produced, queue, frames,
                 heartbeats>>

\* Framing a dequeued Event raises inside the generator (model_dump or
\* model_dump_json fails): except Exception yields the error frame, then the
\* finally clause runs and the generator ends.
GenFault ==
  /\ genPc = "waiting"
  /\ queue # <<>>
  /\ Head(queue) # Sentinel
  /\ queue' = Tail(queue)
  /\ frames' = Append(frames, ErrorFrame)
  /\ genPc' = "closed"
  /\ pumpPc' = Finally(pumpPc)
  /\ UNCHANGED NotV3
  /\ UNCHANGED <<req, plan, planFails, pumpOutcome, produced, disconnected,
                 heartbeats>>

NextV3 ==
  \/ PumpStart
  \/ PumpEvent
  \/ PumpComplete
  \/ PumpRaise
  \/ PumpCancelled
  \/ GenStart
  \/ GenHeartbeat
  \/ GenDequeue
  \/ ClientDisconnect

\* The bridge with Events whose framing can raise.
NextV3Fault ==
  \/ NextV3
  \/ GenFault


\* ------------------------------------------------------------------ /runv2
\* The generator of /runv2 runs the execution itself: it yields stream_start,
\* one data frame per Event of runner.run_async, then stream_complete; an
\* Exception anywhere in between is caught and yields one error frame.
ExcMessages == {"boom", "timeout"}

V2StartFrame == [event |-> "stream_start", ev |-> 0, session_id |-> req.session_id]
V2DataFrame(item) == [event |-> "data", ev |-> item.id, payload |-> model_dump_json(item)]
V2CompleteFrame == [event |-> "stream_complete", ev |-> 0]
V2ErrorFrame(msg) == [event |-> "error", ev |-> 0, error |-> msg]

\* except Exception as e: yield the error frame (and nothing after it).
CompleteOnRaise(msg) == V2CompleteFrame
FrameOnRaise(msg) == V2ErrorFrame(msg)

InitV2Vars ==
  /\ v2Pc = "notstarted"
  /\ v2Frames = <<>>
  /\ v2Produced = 0
  /\ v2Outcome = "none"
  /\ v2Disconnected = FALSE

\* The generator is first iterated: yields stream_start.
V2Start ==
  /\ v2Pc = "notstarted"
  /\ ~v2Disconnected
  /\ v2Frames' = Append(v2Frames, V2StartFrame)
  /\ v2Pc' = "streaming"
  /\ UNCHANGED <<v2Produced, v2Outcome, v2Disconnected>>
  /\ UNCHANGED v3vars
  /\ UNCHANGED NotV2

\* async for event in runner.run_async(...): yield its data frame.
V2Event ==
  /\ v2Pc = "streaming"
  /\ v2Produced < Len(plan)
  /\ v2Produced' = v2Produced + 1
  /\ v2Frames' = Append(v2Frames, V2DataFrame(Ev(v2Produced + 1)))
  /\ UNCHANGED <<v2Pc, v2Outcome, v2Disconnected>>
  /\ UNCHANGED v3vars
  /\ UNCHANGED NotV2

\* run_async is exhausted: yield stream_complete; the generator ends.
V2Complete ==
  /\ v2Pc = "streaming"
  /\ v2Produced = Len(plan)
  /\ ~planFails
  /\ v2Frames' = Append(v2Frames, V2CompleteFrame)
  /\ v2Outcome' = "completed"
  /\ v2Pc' = "closed"
  /\ UNCHANGED <<v2Produced, v2Disconnected>>
  /\ UNCHANGED v3vars
  /\ UNCHANGED NotV2

\* run_async raises an Exception with message msg: the except clause yields
\* the error frame; the generator ends.
V2Raise(msg) ==
  /\ v2Pc = "streaming"
  /\ v2Produced = Len(plan)
  /\ planFails
  /\ v2Frames' = Append(v2Frames, FrameOnRaise(msg))
  /\ v2Outcome' = "failed"
  /\ v2Pc' = "closed"
  /\ UNCHANGED <<v2Produced, v2Disconnected>>
  /\ UNCHANGED v3vars
  /\ UNCHANGED NotV2

\* The client disconnects: a generator never iterated is dropped; a started
\* one is torn down at its yield or await (CancelledError and GeneratorExit
\* are no Exception), and the execution inside it with it.
V2Disconnect ==
  /\ ~v2Disconnected
  /\ v2Pc # "closed"
  /\ v2Disconnected' = TRUE
  /\ v2Pc' = "closed"
  /\ v2Outcome' = IF v2Pc = "streaming" THEN "abandoned" ELSE v2Outcome
  /\ UNCHANGED <<v2Frames, v2Produced>>
  /\ UNCHANGED v3vars
  /\ UNCHANGED NotV2

NextV2 ==
  \/ V2Start
  \/ V2Event
  \/ V2Complete
  \/ \E msg \in ExcMessages : V2Raise(msg)
  \/ V2Disconnect

\* --------------------------------------------------------------- /run_live
\* Most messages the client sends in one live session.
MaxMsgs == 2
\* Most events run_live yields in one live session.
MaxLiveEvents == 1

\* websocket.close(code=1002, reason="Session not found")
SESSION_NOT_FOUND_CODE == 1002
\* Length of the reason "Session not found".
SessionNotFoundLen == 17
WEBSOCKET_INTERNAL_ERROR_CODE == 1011
WEBSOCKET_MAX_BYTES_FOR_REASON == 123

NoExc == [kind |-> "none", len |-> 0]
\* Lengths of str(e) the model draws from: short, exactly the limit, over it.
ExcLens == {9, WEBSOCKET_MAX_BYTES_FOR_REASON, WEBSOCKET_MAX_BYTES_FOR_REASON + 1}

Min(a, b) == IF a < b THEN a ELSE b

\* str(e)[:WEBSOCKET_MAX_BYTES_FOR_REASON]
NoTruncate(len) == len
Truncate(len) == Min(len, WEBSOCKET_MAX_BYTES_FOR_REASON)

LiveTasks == {"fwd", "rcv"}
TaskPc(t) == IF t = "fwd" THEN fwdPc ELSE rcvPc
TaskExc(t) == IF t = "fwd" THEN fwdExc ELSE rcvExc
TaskFinished(t) == TaskPc(t) \in {"done", "raised", "cancelled"}
TaskRaised(t) == TaskPc(t) = "raised"

\* asyncio.wait(tasks, return_when=FIRST_EXCEPTION) returns when a task has
\* ended with an exception or when every task has ended.
WaitFirstCompleted == \E t \in LiveTasks : TaskFinished(t)
WaitReturns ==
  \/ \E t \in LiveTasks : TaskRaised(t)
  \/ \A t \in LiveTasks : TaskFinished(t)

\* task.cancel() on a task of `pending`; a task that has ended meanwhile is
\* left as it is.
CancelIfPending(t, pc) ==
  IF t \in wakePending /\ pc \in {"running", "reading"} THEN "cancelled" ELSE pc

InitLiveVars ==
  /\ lhPc = "connect"
  /\ wsAccepted = FALSE
  /\ liveSession \in BOOLEAN
  /\ fwdPc = "none"
  /\ rcvPc = "none"
  /\ fwdExc = NoExc
  /\ rcvExc = NoExc
  /\ inbox = <<>>
  /\ msgsSent = 0
  /\ liveQueue = <<>>
  /\ liveEvents = 0
  /\ clientGone = FALSE
  /\ invalidSeen = FALSE
  /\ wakeDone = {}
  /\ wakePending = {}
  /\ caught = NoExc
  /\ closeSent = <<>>

\* if not session:
SessionCheckSkipped == FALSE
SessionMissing == ~liveSession

\* await websocket.accept()
LiveAccept ==
  /\ lhPc = "connect"
  /\ wsAccepted' = TRUE
  /\ lhPc' = "check"
  /\ UNCHANGED <<liveSession, fwdPc, rcvPc, fwdExc, rcvExc, inbox, msgsSent,
                 liveQueue, liveEvents, clientGone, invalidSeen, wakeDone,
                 wakePending, caught, closeSent>>
  /\ UNCHANGED NotLive

\* get_session: no session => close(1002) and return; otherwise create the
\* two tasks and wait.
LiveCheckSession ==
  /\ lhPc = "check"
  /\ IF SessionMissing
     THEN /\ closeSent' = Append(closeSent,
                [code |-> SESSION_NOT_FOUND_CODE, len |-> SessionNotFoundLen])
          /\ lhPc' = "returned"
          /\ UNCHANGED <<fwdPc, rcvPc>>
     ELSE /\ fwdPc' = "running"
          /\ rcvPc' = "reading"
          /\ lhPc' = "waiting"
          /\ UNCHANGED closeSent
  /\ UNCHANGED <<wsAccepted, liveSession, fwdExc, rcvExc, inbox, msgsSent,
                 liveQueue, liveEvents, clientGone, invalidSeen, wakeDone,
                 wakePending, caught>>
  /\ UNCHANGED NotLive

\* The client sends a text message, well-formed or not.
ClientSend ==
  /\ wsAccepted
  /\ ~clientGone
  /\ lhPc # "returned"
  /\ msgsSent < MaxMsgs
  /\ \E ok \in BOOLEAN :
       inbox' = Append(inbox, [n |-> msgsSent + 1, ok |-> ok])
  /\ msgsSent' = msgsSent + 1
  /\ UNCHANGED <<lhPc, wsAccepted, liveSession, fwdPc, rcvPc, fwdExc, rcvExc,
                 liveQueue, liveEvents, clientGone, invalidSeen, wakeDone,
                 wakePending, caught, closeSent>>
  /\ UNCHANGED NotLive

\* The client closes the socket.
ClientClose ==
  /\ wsAccepted
  /\ ~clientGone
  /\ lhPc # "returned"
  /\ clientGone' = TRUE
  /\ UNCHANGED <<lhPc, wsAccepted, liveSession, fwdPc, rcvPc, fwdExc, rcvExc,
                 inbox, msgsSent, liveQueue, liveEvents, invalidSeen, wakeDone,
                 wakePending, caught, closeSent>>
  /\ UNCHANGED NotLive

\* async for event in runner.run_live(...): await websocket.send_text(...)
FwdEvent ==
  /\ fwdPc = "running"
  /\ ~clientGone
  /\ liveEvents < MaxLiveEvents
  /\ liveEvents' = liveEvents + 1
  /\ UNCHANGED <<lhPc, wsAccepted, liveSession, fwdPc, rcvPc, fwdExc, rcvExc,
                 inbox, msgsSent, liveQueue, clientGone, invalidSeen, wakeDone,
                 wakePending, caught, closeSent>>
  /\ UNCHANGED NotLive

\* run_live is exhausted: forward_events returns.
FwdComplete ==
  /\ fwdPc = "running"
  /\ fwdPc' = "done"
  /\ UNCHANGED <<lhPc, wsAccepted, liveSession, rcvPc, fwdExc, rcvExc, inbox,
                 msgsSent, liveQueue, liveEvents, clientGone, invalidSeen,
                 wakeDone, wakePending, caught, closeSent>>
  /\ UNCHANGED NotLive

\* forward_events raises: _get_runner_async or run_live fails (an error), or
\* send_text finds the client gone (a disconnect).
FwdRaise ==
  /\ fwdPc = "running"
  /\ \E kind \in {"error", "disconnect"}, len \in ExcLens :
       /\ kind = "disconnect" => clientGone
       /\ fwdExc' = [kind |-> kind, len |-> len]
  /\ fwdPc' = "raised"
  /\ UNCHANGED <<lhPc, wsAccepted, liveSession, rcvPc, rcvExc, inbox, msgsSent,
                 liveQueue, liveEvents, clientGone, invalidSeen, wakeDone,
                 wakePending, caught, closeSent>>
  /\ UNCHANGED NotLive

\* The receiver's outcome on one message: a well-formed one is validated and
\* sent to the live queue and the loop goes on; a ValidationError leaves the
\* while loop (the try encloses it), is logged, and process_messages returns.
AfterMessage(ok) == IF ok THEN "reading" ELSE "done"

\* data = await websocket.receive_text();
\* live_request_queue.send(LiveRequest.model_validate_json(data))
RcvRead ==
  /\ rcvPc = "reading"
  /\ inbox # <<>>
  /\ inbox' = Tail(inbox)
  /\ liveQueue' = IF Head(inbox).ok THEN Append(liveQueue, Head(inbox).n)
                  ELSE liveQueue
  /\ invalidSeen' = (invalidSeen \/ ~Head(inbox).ok)
  /\ rcvPc' = AfterMessage(Head(inbox).ok)
  /\ UNCHANGED <<lhPc, wsAccepted, liveSession, fwdPc, fwdExc, rcvExc, msgsSent,
                 liveEvents, clientGone, wakeDone, wakePending, caught,
                 closeSent>>
  /\ UNCHANGED NotLive

\* receive_text raises: WebSocketDisconnect once the client is gone and its
\* messages are read, or another exception (e.g. a non-text frame).
RcvRaise ==
  /\ rcvPc = "reading"
  /\ \E kind \in {"error", "disconnect"}, len \in ExcLens :
       /\ kind = "disconnect" => (clientGone /\ inbox = <<>>)
       /\ rcvExc' = [kind |-> kind, len |-> len]
  /\ rcvPc' = "raised"
  /\ UNCHANGED <<lhPc, wsAccepted, liveSession, fwdPc, fwdExc, inbox, msgsSent,
                 liveQueue, liveEvents, clientGone, invalidSeen, wakeDone,
                 wakePending, caught, closeSent>>
  /\ UNCHANGED NotLive

\* asyncio.wait returns (done, pending); task.result() re-raises the
\* exception of a task of `done`.  WebSocketDisconnect, or no exception: the
\* finally clause cancels the pending tasks.  Another exception: the handler
\* awaits websocket.close(1011, reason) before its finally clause.
LiveWake ==
  /\ lhPc = "waiting"
  /\ WaitReturns
  /\ LET done == {t \in LiveTasks : TaskFinished(t)}
         raisers == {t \in done : TaskRaised(t)}
     IN /\ wakeDone' = done
        /\ wakePending' = LiveTasks \ done
        /\ IF raisers = {}
           THEN /\ caught' = NoExc
                /\ lhPc' = "returned"
                /\ fwdPc' = IF "fwd" \in done THEN fwdPc ELSE "cancelled"
                /\ rcvPc' = IF "rcv" \in done THEN rcvPc ELSE "cancelled"
                /\ UNCHANGED closeSent
           ELSE \E t \in raisers :
                  /\ caught' = TaskExc(t)
                  /\ IF TaskExc(t).kind = "disconnect"
                     THEN /\ lhPc' = "returned"
                          /\ fwdPc' = IF "fwd" \in done THEN fwdPc ELSE "cancelled"
                          /\ rcvPc' = IF "rcv" \in done THEN rcvPc ELSE "cancelled"
                          /\ UNCHANGED closeSent
                     ELSE /\ lhPc' = "closing"
                          /\ closeSent' = Append(closeSent,
                               [code |-> WEBSOCKET_INTERNAL_ERROR_CODE,
                                len |-> Truncate(TaskExc(t).len)])
                          /\ UNCHANGED <<fwdPc, rcvPc>>
  /\ UNCHANGED <<wsAccepted, liveSession, fwdExc, rcvExc, inbox, msgsSent,
                 liveQueue, liveEvents, clientGone, invalidSeen>>
  /\ UNCHANGED NotLive

\* websocket.close has returned; finally: for task in pending: task.cancel()
LiveFinish ==
  /\ lhPc = "closing"
  /\ lhPc' = "returned"
  /\ fwdPc' = CancelIfPending("fwd", fwdPc)
  /\ rcvPc' = CancelIfPending("rcv", rcvPc)
  /\ UNCHANGED <<wsAccepted, liveSession, fwdExc, rcvExc, inbox, msgsSent,
                 liveQueue, liveEvents, clientGone, invalidSeen, wakeDone,
                 wakePending, caught, closeSent>>
  /\ UNCHANGED NotLive

NextLive ==
  \/ LiveAccept
  \/ LiveCheckSession
  \/ ClientSend
  \/ ClientClose
  \/ FwdEvent
  \/ FwdComplete
  \/ FwdRaise
  \/ RcvRead
  \/ RcvRaise
  \/ LiveWake
  \/ LiveFinish

\* ------------------------------------------------------------ runner cache
\* Requests made in one run of the model; each can construct one Runner.
NumCalls == 3
\* Most file modifications in one run of the model.
MaxChanges == 2

Apps == {"A", "B"}
\* _app_name = "" until a get-session request sets it.
NoApp == ""
Names == Apps \cup {NoApp}
NoRunner == 0
RunnerIds == 1..NumCalls
CallIds == 1..NumCalls
NoCall == 0
Extensions == {"py", "yaml", "txt"}

IdleCall == [pc |-> "idle", app |-> NoApp, popped |-> NoRunner,
             held |-> NoRunner, consumed |-> FALSE, tainted |-> FALSE,
             err |-> "none"]
IdleWatcher == [pc |-> "idle", changed |-> NoApp]

InitRunnerVars ==
  /\ runner_dict = [a \in Apps |-> NoRunner]
  /\ runners_to_clean = {}
  /\ app_name_g = NoApp
  /\ loaderCache = {}
  /\ runnerApp = [r \in RunnerIds |-> NoApp]
  /\ runnerState = [r \in RunnerIds |-> "unbuilt"]
  /\ nextId = 1
  /\ calls = [c \in CallIds |-> IdleCall]
  /\ loop = NoCall
  /\ watcher = IdleWatcher
  /\ changes = 0
  /\ epochReturned = [a \in Apps |-> {}]
  /\ epochBuilt = [a \in Apps |-> 0]

\* if app_name in runner_dict
InDictNever(a) == FALSE
InDict(a) == runner_dict[a] # NoRunner

\* agent_loader.load_agent(app_name): the cached agent, or the definition
\* loaded from disk (ok), which raises when it cannot be loaded.
CanLoad(a, ok) == a \in loaderCache \/ ok

\* The name on_modified invalidates: the global _app_name.
InvalidatedName(changed) == app_name_g

\* get_session sets the global _app_name to the app of the request.
GetSession(a) ==
  /\ loop = NoCall
  /\ app_name_g # a
  /\ app_name_g' = a
  /\ UNCHANGED <<runner_dict, runners_to_clean, loaderCache,
                 runnerApp, runnerState, nextId, calls, loop, watcher,
                 epochReturned, epochBuilt, changes>>
  /\ UNCHANGED NotRunner

\* on_modified returns at once unless the path ends in .py or .yaml.
Relevant(ext) == ext \in {"py", "yaml"}

\* A file under the directory of app a is modified.  The observer thread
\* calls on_modified, which drops the event unless its suffix is relevant.
FileModified(a, ext) ==
  /\ watcher.pc = "idle"
  /\ changes < MaxChanges
  /\ changes' = changes + 1
  /\ watcher' = IF Relevant(ext) THEN [pc |-> "notified", changed |-> a]
                ELSE watcher
  /\ UNCHANGED <<runner_dict, runners_to_clean, app_name_g, loaderCache,
                 runnerApp, runnerState, nextId, calls, loop, epochReturned,
                 epochBuilt>>
  /\ UNCHANGED NotRunner

\* on_modified: agent_loader.remove_agent_from_cache(_app_name)
OnModifiedRemove ==
  /\ watcher.pc = "notified"
  /\ loaderCache' = loaderCache \ {InvalidatedName(watcher.changed)}
  /\ watcher' = [watcher EXCEPT !.pc = "marking"]
  /\ UNCHANGED <<runner_dict, runners_to_clean, app_name_g, runnerApp,
                 runnerState, nextId, calls, loop, epochReturned, epochBuilt, changes>>
  /\ UNCHANGED NotRunner

\* A _get_runner_async call is in progress (between its entry and its return).
InProgress(c) == calls[c].pc \in {"closing", "loaded"}

\* on_modified: _runners_to_clean.add(_app_name)
OnModifiedMark ==
  /\ watcher.pc = "marking"
  /\ LET n == InvalidatedName(watcher.changed)
     IN /\ runners_to_clean' = runners_to_clean \cup {n}
        /\ epochReturned' = [a \in Apps |-> IF a = n THEN {} ELSE epochReturned[a]]
        /\ epochBuilt' = [a \in Apps |-> IF a = n THEN 0 ELSE epochBuilt[a]]
        /\ calls' = [c \in CallIds |->
                       IF InProgress(c) /\ calls[c].app = n
                       THEN [calls[c] EXCEPT !.tainted = TRUE]
                       ELSE calls[c]]
  /\ watcher' = IdleWatcher
  /\ UNCHANGED <<runner_dict, app_name_g, loaderCache, runnerApp,
                 runnerState, nextId, loop, changes>>
  /\ UNCHANGED NotRunner

\* _get_runner_async from `if app_name in runner_dict` to load_agent: return
\* the cached Runner, or load the agent (the Runner is constructed in the
\* next step, with the event loop still held), or fail with the load error.
Lookup(c, rec) ==
  IF InDict(rec.app)
  THEN /\ calls' = [calls EXCEPT ![c] =
                      [rec EXCEPT !.pc = "executing", !.popped = NoRunner,
                                  !.tainted = FALSE,
                                  !.held = runner_dict[rec.app]]]
       /\ loop' = NoCall
       /\ epochReturned' =
            IF rec.tainted THEN epochReturned
            ELSE [epochReturned EXCEPT ![rec.app] = @ \cup {runner_dict[rec.app]}]
       /\ UNCHANGED loaderCache
  ELSE \E ok \in BOOLEAN :
         IF CanLoad(rec.app, ok)
         THEN /\ calls' = [calls EXCEPT ![c] = [rec EXCEPT !.pc = "loaded"]]
              /\ loop' = c
              /\ loaderCache' = loaderCache \cup {rec.app}
              /\ UNCHANGED epochReturned
         ELSE /\ calls' = [calls EXCEPT ![c] =
                             [rec EXCEPT !.pc = "failed", !.err = "load"]]
              /\ loop' = NoCall
              /\ UNCHANGED <<loaderCache, epochReturned>>

\* await cleanup.close_runners(...) suspends the call: the event loop is free
\* for the other requests while the close runs.
LoopHeldWhileClosing(c) == c
LoopWhileClosing(c) == NoCall

\* close_runners([runner]) creates the task that runs runner.close().
CloseSkipped(states, r) == states
CloseInvoked(states, r) == [states EXCEPT ![r] = "closing"]

\* A request (they are numbered in the order they arrive) enters
\* _get_runner_async(a).  Marked stale: the mark is removed,
\* the cached Runner popped and close_runners([runner]) awaited, which raises
\* AttributeError when nothing was cached (close_runners calls
\* runner.close() on each element, and runner is None).  Not marked: the call
\* goes on to the cache lookup.
CallBegin(c, a) ==
  /\ loop = NoCall
  /\ calls[c].pc = "idle"
  /\ \A d \in CallIds : d < c => calls[d].pc # "idle"
  /\ LET rec == [IdleCall EXCEPT !.app = a]
     IN IF a \in runners_to_clean
        THEN /\ runners_to_clean' = runners_to_clean \ {a}
             /\ runner_dict' = [runner_dict EXCEPT ![a] = NoRunner]
             /\ IF runner_dict[a] = NoRunner
                THEN /\ calls' = [calls EXCEPT ![c] =
                            [rec EXCEPT !.pc = "failed", !.consumed = TRUE,
                                        !.err = "AttributeError"]]
                     /\ UNCHANGED <<runnerState, loop>>
                ELSE /\ calls' = [calls EXCEPT ![c] =
                            [rec EXCEPT !.pc = "closing", !.consumed = TRUE,
                                        !.popped = runner_dict[a]]]
                     /\ runnerState' = CloseInvoked(runnerState, runner_dict[a])
                     /\ loop' = LoopWhileClosing(c)
             /\ UNCHANGED <<loaderCache, epochReturned>>
        ELSE /\ Lookup(c, rec)
             /\ UNCHANGED <<runners_to_clean, runner_dict, runnerState>>
  /\ UNCHANGED <<app_name_g, runnerApp, nextId, watcher,
                 epochBuilt, changes>>
  /\ UNCHANGED NotRunner

\* runner.close() of a popped Runner completes.
CloseFinish(r) ==
  /\ loop = NoCall
  /\ runnerState[r] = "closing"
  /\ runnerState' = [runnerState EXCEPT ![r] = "closed"]
  /\ UNCHANGED <<runner_dict, runners_to_clean, app_name_g, loaderCache,
                 runnerApp, nextId, calls, loop, watcher,
                 epochReturned, epochBuilt, changes>>
  /\ UNCHANGED NotRunner

\* close_runners has returned: the call goes on to the cache lookup.
CallResume(c) ==
  /\ loop = NoCall
  /\ calls[c].pc = "closing"
  /\ runnerState[calls[c].popped] = "closed"
  /\ Lookup(c, calls[c])
  /\ UNCHANGED <<runner_dict, runners_to_clean, app_name_g, runnerApp,
                 runnerState, nextId, watcher, epochBuilt, changes>>
  /\ UNCHANGED NotRunner

\* runner = Runner(...); runner_dict[app_name] = runner; return runner
CallConstruct(c) ==
  /\ loop = c
  /\ calls[c].pc = "loaded"
  /\ LET a == calls[c].app
     IN /\ runnerApp' = [runnerApp EXCEPT ![nextId] = a]
        /\ runnerState' = [runnerState EXCEPT ![nextId] = "live"]
        /\ runner_dict' = [runner_dict EXCEPT ![a] = nextId]
        /\ calls' = [calls EXCEPT ![c].pc = "executing", ![c].held = nextId,
                                  ![c].tainted = FALSE]
        /\ epochReturned' =
             IF calls[c].tainted THEN epochReturned
             ELSE [epochReturned EXCEPT ![a] = @ \cup {nextId}]
        /\ epochBuilt' =
             IF calls[c].tainted THEN epochBuilt
             ELSE [epochBuilt EXCEPT ![a] = @ + 1]
  /\ nextId' = nextId + 1
  /\ loop' = NoCall
  /\ UNCHANGED <<runners_to_clean, app_name_g, loaderCache, watcher, changes>>
  /\ UNCHANGED NotRunner

\* The request ends: its execution with the Runner is over, or its error
\* response has been sent.
CallEnd(c) ==
  /\ loop = NoCall
  /\ calls[c].pc \in {"executing", "failed"}
  /\ calls' = [calls EXCEPT ![c] = [IdleCall EXCEPT !.pc = "ended"]]
  /\ UNCHANGED <<runner_dict, runners_to_clean, app_name_g, loaderCache,
                 runnerApp, runnerState, nextId, loop, watcher,
                 epochReturned, epochBuilt, changes>>
  /\ UNCHANGED NotRunner

\* ------------------------------------------- definitions behind the cache
\* The runner cache with the versions of the agent definitions followed: a
\* modification of a .py or .yaml file of an application gives its
\* definition a new version; load_agent returns the version in the
\* AgentLoader cache, or loads the one on disk and caches it.
InitDefVars ==
  /\ diskVer = [a \in Apps |-> 1]
  /\ loaderVer = [a \in Apps |-> 0]
  /\ handledVer = [a \in Apps |-> 0]
  /\ noted = [a \in Apps |-> 0]
  /\ callVer = [c \in CallIds |-> 0]
  /\ needVer = [c \in CallIds |-> 0]
  /\ runnerVer = [r \in RunnerIds |-> 0]

\* agent_loader.load_agent(a): the cached agent if there is one.
LoadedVersion(a) == IF a \in loaderCache THEN loaderVer[a] ELSE diskVer[a]

\* What a step of request c for app a that may have called load_agent
\* leaves behind.
LoadTracked(c, a) ==
  IF calls'[c].pc = "loaded"
  THEN /\ callVer' = [callVer EXCEPT ![c] = LoadedVersion(a)]
       /\ loaderVer' = [loaderVer EXCEPT ![a] = LoadedVersion(a)]
  ELSE UNCHANGED <<callVer, loaderVer>>

DefGetSession(a) ==
  /\ GetSession(a)
  /\ UNCHANGED defvars

DefFileModified(a, ext) ==
  /\ FileModified(a, ext)
  /\ diskVer' = [diskVer EXCEPT ![a] = IF Relevant(ext) THEN @ + 1 ELSE @]
  /\ UNCHANGED <<loaderVer, handledVer, noted, callVer, needVer, runnerVer>>

DefOnModifiedRemove ==
  /\ OnModifiedRemove
  /\ UNCHANGED defvars

DefOnModifiedMark ==
  /\ OnModifiedMark
  /\ handledVer' = [handledVer EXCEPT ![watcher.changed] = diskVer[watcher.changed]]
  /\ noted' = [noted EXCEPT ![watcher.changed] = @ + 1]
  /\ UNCHANGED <<diskVer, loaderVer, callVer, needVer, runnerVer>>

DefCallBegin(c, a) ==
  /\ CallBegin(c, a)
  /\ noted' = [noted EXCEPT ![a] = 0]
  /\ needVer' = [needVer EXCEPT ![c] = handledVer[a]]
  /\ LoadTracked(c, a)
  /\ UNCHANGED <<diskVer, handledVer, runnerVer>>

DefCloseFinish(r) ==
  /\ CloseFinish(r)
  /\ UNCHANGED defvars

DefCallResume(c) ==
  /\ CallResume(c)
  /\ LoadTracked(c, calls[c].app)
  /\ UNCHANGED <<diskVer, handledVer, noted, needVer, runnerVer>>

DefCallConstruct(c) ==
  /\ CallConstruct(c)
  /\ runnerVer' = [runnerVer EXCEPT ![nextId] = callVer[c]]
  /\ UNCHANGED <<diskVer, loaderVer, handledVer, noted, callVer, needVer>>

DefCallEnd(c) ==
  /\ CallEnd(c)
  /\ callVer' = [callVer EXCEPT ![c] = 0]
  /\ needVer' = [needVer EXCEPT ![c] = 0]
  /\ UNCHANGED <<diskVer, loaderVer, handledVer, noted, runnerVer>>

NextReload ==
  \/ \E a \in Apps : DefGetSession(a)
  \/ \E a \in Apps, ext \in Extensions : DefFileModified(a, ext)
  \/ DefOnModifiedRemove
  \/ DefOnModifiedMark
  \/ \E c \in CallIds, a \in Apps : DefCallBegin(c, a)
  \/ \E r \in RunnerIds : DefCloseFinish(r)
  \/ \E c \in CallIds : DefCallResume(c)
  \/ \E c \in CallIds : DefCallConstruct(c)
  \/ \E c \in CallIds : DefCallEnd(c)

\* The runner cache alone.
NextRunnerOnly ==
  \/ \E a \in Apps : GetSession(a) /\ UNCHANGED defvars
  \/ \E a \in Apps, ext \in Extensions : FileModified(a, ext) /\ UNCHANGED defvars
  \/ OnModifiedRemove /\ UNCHANGED defvars
  \/ OnModifiedMark /\ UNCHANGED defvars
  \/ \E c \in CallIds, a \in Apps : CallBegin(c, a) /\ UNCHANGED defvars
  \/ \E r \in RunnerIds : CloseFinish(r) /\ UNCHANGED defvars
  \/ \E c \in CallIds : CallResume(c) /\ UNCHANGED defvars
  \/ \E c \in CallIds : CallConstruct(c) /\ UNCHANGED defvars
  \/ \E c \in CallIds : CallEnd(c) /\ UNCHANGED defvars

\* ------------------------------------------------- the run endpoints
\* /run, /runv2, /run_sse and /runv3 begin with the same check:
\*   session = await session_service.get_session(...)
\*   if not session: raise HTTPException(status_code=404, ...)
Endpoints == {"/run", "/runv2", "/run_sse", "/runv3"}

\* What the request does when its session is not found: it raises, before
\* the call of _get_runner_async.
SessionCheckedLate(c, a) ==
  /\ CallBegin(c, a)
  /\ UNCHANGED defvars
SessionChecked(c, a) ==
  /\ calls' = [calls EXCEPT ![c] =
                [IdleCall EXCEPT !.app = a, !.pc = "failed", !.err = "NotFound"]]
  /\ UNCHANGED <<runner_dict, runners_to_clean, app_name_g, loaderCache,
                 runnerApp, runnerState, nextId, loop, watcher,
                 epochReturned, epochBuilt, changes>>
  /\ UNCHANGED NotRunner
  /\ UNCHANGED defvars

\* A request (they are numbered in the order they arrive) for app a at
\* endpoint ep whose session does not exist.
RunSessionNotFound(ep, c, a) ==
  /\ loop = NoCall
  /\ calls[c].pc = "idle"
  /\ \A d \in CallIds : d < c => calls[d].pc # "idle"
  /\ SessionChecked(c, a)

\* The run endpoints: requests whose session exists go on to
\* _get_runner_async, the others get 404.
NextRun ==
  \/ \E ep \in Endpoints, c \in CallIds, a \in Apps : RunSessionNotFound(ep, c, a)
  \/ \E c \in CallIds, a \in Apps : CallBegin(c, a) /\ UNCHANGED defvars
  \/ \E r \in RunnerIds : CloseFinish(r) /\ UNCHANGED defvars
  \/ \E c \in CallIds : CallResume(c) /\ UNCHANGED defvars
  \/ \E c \in CallIds : CallConstruct(c) /\ UNCHANGED defvars
  \/ \E c \in CallIds : CallEnd(c) /\ UNCHANGED defvars

\* ------------------------------------------------------------ trace store
\* Most spans exported in one run of the model.
MaxSpans == 2

\* A span name is the sequence of its words: <<"execute_tool", "search">> is
\* the name "execute_tool search".
SpanNames == {<<"call_llm">>, <<"send_data">>, <<"execute_tool", "search">>,
              <<"invoke_agent">>}
\* attributes.get(key, None) of a span without the attribute.
NoId == "None"
EventIdValues == {NoId, "e1", "e2"}
SessionIdValues == {NoId, "s1"}
TraceIds == {"t1", "t2"}

\* The spans the instrumentation can end; span_id is set at export (span ids
\* are unique: the model numbers the spans in export order).
SpanShapes ==
  [name : SpanNames, ev : EventIdValues, sess : SessionIdValues,
   trace_id : TraceIds]

Stamp(shape, n) ==
  [name |-> shape.name, ev |-> shape.ev, sess |-> shape.sess,
   trace_id |-> shape.trace_id, span_id |-> n]

\* trace_dict.get(event_id, None) of an absent key.
NoEntry == [ev |-> NoId, sess |-> NoId, trace_id |-> "None", span_id |-> 0]

\* `if value:` on an attribute that is a string or None.
TruthyAlways(v) == TRUE
Truthy(v) == v # NoId

\* span.name == "call_llm" or span.name == "send_data"
\* or span.name.startswith("execute_tool")
InAllowList(name) ==
  \/ name = <<"call_llm">>
  \/ name = <<"send_data">>
  \/ name[1] = "execute_tool"

\* attributes = dict(span.attributes) with trace_id and span_id added.
Attributes(span) ==
  [ev |-> span.ev, sess |-> span.sess, trace_id |-> span.trace_id,
   span_id |-> span.span_id]

\* ApiServerSpanExporter.export on one span.
ApiExportOne(td, span) ==
  IF InAllowList(span.name) /\ Truthy(span.ev)
  THEN [td EXCEPT ![span.ev] = Attributes(span)]
  ELSE td

\* self.trace_dict[session_id] = [trace_id]  /  += [trace_id]
KeepFirstTrace(ids, t) == IF ids = <<>> THEN <<t>> ELSE ids
AddTrace(ids, t) == Append(ids, t)

\* InMemoryExporter.export on one span, up to self._spans.extend.
MemIndexOne(std, span) ==
  IF span.name = <<"call_llm">> /\ Truthy(span.sess)
  THEN [std EXCEPT ![span.sess] = AddTrace(@, span.trace_id)]
  ELSE std

\* for span in spans: ... (the loops of the two export methods)
RECURSIVE ApiExport(_, _)
ApiExport(td, batch) ==
  IF batch = <<>> THEN td
  ELSE ApiExport(ApiExportOne(td, Head(batch)), Tail(batch))

RECURSIVE MemIndex(_, _)
MemIndex(std, batch) ==
  IF batch = <<>> THEN std
  ELSE MemIndex(MemIndexOne(std, Head(batch)), Tail(batch))

InitTraceVars ==
  /\ trace_dict = [e \in EventIdValues |-> NoEntry]
  /\ session_trace_dict = [x \in SessionIdValues |-> <<>>]
  /\ spans = <<>>

\* The span processors hand the ended spans to ApiServerSpanExporter.export
\* and to InMemoryExporter.export, in the order the processors were added.
\* n is the number of spans handed over in the call.
ExportSpans(n) ==
  /\ Len(spans) + n <= MaxSpans
  /\ \E shapes \in [1..n -> SpanShapes] :
       LET batch == [i \in 1..n |-> Stamp(shapes[i], Len(spans) + i)]
       IN /\ trace_dict' = ApiExport(trace_dict, batch)
          /\ session_trace_dict' = MemIndex(session_trace_dict, batch)
          /\ spans' = spans \o batch
  /\ UNCHANGED NotTrace

\* HTTPException(status_code=404, detail="Trace not found")
TraceNotFound == [status_code |-> 404]

\* GET /debug/trace/{event_id}: the attributes, or 404.
get_trace_dict(event_id) ==
  IF trace_dict[event_id] = NoEntry THEN TraceNotFound ELSE trace_dict[event_id]

\* InMemoryExporter.get_finished_spans, as GET /debug/trace/session/{id}
\* returns it (one dict per span, in list order).
get_finished_spans(session_id) ==
  LET trace_ids == session_trace_dict[session_id]
  IN IF trace_ids = <<>> THEN <<>>
     ELSE SelectSeq(spans,
            LAMBDA x : \E i \in 1..Len(trace_ids) : trace_ids[i] = x.trace_id)

NextTrace ==
  \/ ExportSpans(1)
  \/ ExportSpans(2)

\* --------------------------------------------------------------- shutdown
\* list(runner_dict.values()): the Runners in the cache.
NoRunners(rd) == {}
CachedRunners(rd) == {rd[a] : a \in {b \in Apps : rd[b] # NoRunner}}

InitShutdownVars ==
  /\ shutPc = "serving"
  /\ reloadAgents \in BOOLEAN
  /\ lifespanRaised = FALSE
  /\ observerAlive = reloadAgents
  /\ closeTask = [r \in RunnerIds |-> "none"]
  /\ propagated = "none"

\* A cache the server can have between requests: any set of applications
\* has a live Runner (numbered in construction order); the applications in
\* `marked` were changed on disk since, each while it was the one get-session
\* had last named, so they are marked stale and out of the loader cache;
\* `last` is the application get-session named last.
DrawnCache(marked, last) ==
  /\ \E cached \in SUBSET Apps, first \in Apps :
       /\ runner_dict = [a \in Apps |->
            IF a \notin cached THEN NoRunner
            ELSE IF cached = Apps /\ a # first THEN 2 ELSE 1]
       /\ runnerApp = [r \in RunnerIds |->
            IF \E a \in Apps : runner_dict[a] = r
            THEN CHOOSE a \in Apps : runner_dict[a] = r ELSE NoApp]
       /\ runnerState = [r \in RunnerIds |->
            IF \E a \in Apps : runner_dict[a] = r THEN "live" ELSE "unbuilt"]
       /\ nextId = Cardinality(cached) + 1
  /\ runners_to_clean = marked
  /\ app_name_g = last
  /\ loaderCache = {a \in Apps : runner_dict[a] # NoRunner} \ marked
  /\ calls = [c \in CallIds |-> IdleCall]
  /\ loop = NoCall
  /\ watcher = IdleWatcher
  /\ changes = 0
  /\ epochReturned = [a \in Apps |-> {}]
  /\ epochBuilt = [a \in Apps |-> 0]

\* The cache at the time the server is told to stop.
InitShutdownCache == DrawnCache({}, NoApp)

\* The cache when a burst of run requests arrives: any set of applications
\* has a live Runner, and the watcher has marked any set of them stale
\* since (get-session requests named them).
InitRunCache ==
  \E marked \in SUBSET Apps :
    \E last \in (IF marked = {} THEN Names ELSE Apps) : DrawnCache(marked, last)

\* The server stops: the lifespan context is left (its body may have raised)
\* and the finally clause runs: observer.stop() and observer.join() when
\* reload_agents is set, then close_runners(list(runner_dict.values())),
\* which creates one task per Runner, each running runner.close(), and awaits
\* asyncio.wait on them; with no Runner it returns at once.
ShutdownBegin ==
  /\ shutPc = "serving"
  /\ \E raised \in BOOLEAN :
       /\ lifespanRaised' = raised
       /\ LET snapshot == CachedRunners(runner_dict)
          IN /\ closeTask' = [r \in RunnerIds |->
                                IF r \in snapshot THEN "running" ELSE closeTask[r]]
             /\ runnerState' = [r \in RunnerIds |->
                                IF r \in snapshot THEN "closing" ELSE runnerState[r]]
             /\ shutPc' = IF snapshot = {} THEN "exited" ELSE "closing"
             /\ propagated' = IF snapshot = {} /\ raised THEN "lifespan" ELSE "none"
  /\ observerAlive' = FALSE
  /\ UNCHANGED <<reloadAgents, runner_dict, runners_to_clean, app_name_g,
                 loaderCache, runnerApp, nextId, calls, loop, watcher, changes,
                 epochReturned, epochBuilt>>
  /\ UNCHANGED NotShutdown

\* runner.close() of one close task returns.
CloseTaskOk(r) ==
  /\ closeTask[r] = "running"
  /\ closeTask' = [closeTask EXCEPT ![r] = "ok"]
  /\ runnerState' = [runnerState EXCEPT ![r] = "closed"]
  /\ UNCHANGED <<shutPc, reloadAgents, lifespanRaised, observerAlive, propagated>>
  /\ UNCHANGED <<runner_dict, runners_to_clean, app_name_g, loaderCache,
                 runnerApp, nextId, calls, loop, watcher, changes,
                 epochReturned, epochBuilt>>
  /\ UNCHANGED NotShutdown

\* runner.close() of one close task raises: the exception stays in the task.
CloseTaskFail(r) ==
  /\ closeTask[r] = "running"
  /\ closeTask' = [closeTask EXCEPT ![r] = "failed"]
  /\ UNCHANGED <<shutPc, reloadAgents, lifespanRaised, observerAlive, propagated>>
  /\ UNCHANGED runnervars
  /\ UNCHANGED NotShutdown

\* asyncio.wait(cleanup_tasks, timeout=30.0, return_when=ALL_COMPLETED)
\* returns, every task done or the time-out over; close_runners cancels the
\* tasks still pending and returns; the finally clause ends and the
\* exception of the lifespan body, if any, goes on.
CloseWaitReturns ==
  /\ shutPc = "closing"
  /\ closeTask' = [r \in RunnerIds |->
                     IF closeTask[r] = "running" THEN "cancelled" ELSE closeTask[r]]
  /\ shutPc' = "exited"
  /\ propagated' = IF lifespanRaised THEN "lifespan" ELSE "none"
  /\ UNCHANGED <<reloadAgents, lifespanRaised, observerAlive>>
  /\ UNCHANGED runnervars
  /\ UNCHANGED NotShutdown

NextShutdown ==
  \/ ShutdownBegin
  \/ \E r \in RunnerIds : CloseTaskOk(r)
  \/ \E r \in RunnerIds : CloseTaskFail(r)
  \/ CloseWaitReturns

\* --------------------------------------------------------------- run_eval
\* Most run_eval requests in one run of the model.
MaxRuns == 2
\* Most ids in req.eval_ids, and most cases in the eval set.
MaxIds == 2
MaxCases == 2

CaseIds == {"c1", "c2", "c3"}
EvalApp == "A"
EvalSetId == "es1"

\* eval_sets_manager.get_eval_set returns None.
NoEvalSet == <<"None">>

\* The eval sets the store can hold: add_eval_case refuses a second case
\* with an id the set already has, so the ids of a set are distinct.
EvalSets ==
  {s \in SeqsUpTo(CaseIds, MaxCases) : \A i, j \in 1..Len(s) : s[i] = s[j] => i = j}

\* e.eval_id in req.eval_ids
Listed(e, ids) == \E i \in 1..Len(ids) : ids[i] = e

\* The cases handed to run_evals: all of the set when req.eval_ids is empty,
\* else the cases of the set, in the order of the set, whose id is listed.
SelectByIds(set, ids) ==
  IF ids = <<>> THEN set
  ELSE LET InSet(e) == \E i \in 1..Len(set) : set[i] = e
       IN SelectSeq(ids, InSet)
SelectCases(set, ids) ==
  IF ids = <<>> THEN set
  ELSE LET IsListed(e) == Listed(e, ids)
       IN SelectSeq(set, IsListed)

\* The result run_evals yields for the k-th replay of request n: its eval id
\* and the id of the session the replay ran in, fresh for every replay.
CaseResult(e, n, k) == [eval_id |-> e, session_id |-> <<n, k>>]

\* RunEvalResult(... eval_id=eval_case_result.eval_id, session_id=...)
RunEvalResult(r) ==
  [app_name |-> EvalApp, eval_set_id |-> EvalSetId, eval_id |-> r.eval_id,
   session_id |-> r.session_id]

\* eval_set_results_manager.save_eval_set_result(app_name, eval_set_id,
\* eval_case_results): the manager stores the batch as one eval set result
\* under a result id made of the app name, the eval set id and the time of
\* the save; list_eval_results / get_eval_result go by that id.
SaveKeyedBySet(st, app, set, results, t) ==
  {s \in st : <<s.eval_set_result_id[1], s.eval_set_result_id[2]>> # <<app, set>>}
    \cup {[eval_set_result_id |-> <<app, set, 0>>, eval_case_results |-> results]}
save_eval_set_result(st, app, set, results, t) ==
  st \cup {[eval_set_result_id |-> <<app, set, t>>, eval_case_results |-> results]}

\* raise HTTPException(400) from the except clause leaves run_eval: the
\* save after the try block is not reached.
StoreAfterAbortSaved(st, results, t) ==
  save_eval_set_result(st, EvalApp, EvalSetId, results, t)
StoreAfterAbort(st, results, t) == st

BadRequest == [status_code |-> 400, results |-> <<>>]
Ok(results) == [status_code |-> 200, results |-> results]

InitEvalVars ==
  /\ evalSet \in EvalSets \cup {NoEvalSet}
  /\ evalPc = "idle"
  /\ evalIds = <<>>
  /\ toRun = <<>>
  /\ replayed = <<>>
  /\ run_eval_results = <<>>
  /\ eval_case_results = <<>>
  /\ evalResponses = <<>>
  /\ resultsStore = {}
  /\ storeClock = 1

\* run_eval is called: 400 when the eval set is not found; else the cases to
\* run are selected and run_evals is entered.
EvalBegin(ids) ==
  /\ evalPc = "idle"
  /\ Len(evalResponses) < MaxRuns
  /\ evalIds' = ids
  /\ replayed' = <<>>
  /\ run_eval_results' = <<>>
  /\ eval_case_results' = <<>>
  /\ IF evalSet = NoEvalSet
     THEN /\ evalResponses' = Append(evalResponses, BadRequest)
          /\ evalPc' = "responded"
          /\ toRun' = <<>>
     ELSE /\ toRun' = SelectCases(evalSet, ids)
          /\ evalPc' = "running"
          /\ UNCHANGED evalResponses
  /\ UNCHANGED <<evalSet, resultsStore, storeClock>>
  /\ UNCHANGED NotEval

\* run_evals replays the next case and yields its result: one RunEvalResult
\* is appended to the response list, and the case result, with its session
\* details, to the list for the store.
EvalCaseDone ==
  /\ evalPc = "running"
  /\ Len(replayed) < Len(toRun)
  /\ LET e == toRun[Len(replayed) + 1]
         r == CaseResult(e, Len(evalResponses) + 1, Len(replayed) + 1)
     IN /\ replayed' = Append(replayed, e)
        /\ run_eval_results' = Append(run_eval_results, RunEvalResult(r))
        /\ eval_case_results' = Append(eval_case_results, r)
  /\ UNCHANGED <<evalSet, evalPc, evalIds, toRun, evalResponses, resultsStore,
                 storeClock>>
  /\ UNCHANGED NotEval

\* Replaying the next case raises ModuleNotFoundError: except clause, 400.
EvalMissingModule ==
  /\ evalPc = "running"
  /\ Len(replayed) < Len(toRun)
  /\ replayed' = Append(replayed, toRun[Len(replayed) + 1])
  /\ evalResponses' = Append(evalResponses, BadRequest)
  /\ resultsStore' = StoreAfterAbort(resultsStore, eval_case_results, storeClock)
  /\ storeClock' = IF resultsStore' = resultsStore THEN storeClock ELSE storeClock + 1
  /\ evalPc' = "responded"
  /\ UNCHANGED <<evalSet, evalIds, toRun, run_eval_results, eval_case_results>>
  /\ UNCHANGED NotEval

\* run_evals is exhausted: the case results are saved and the response list
\* returned.
EvalFinish ==
  /\ evalPc = "running"
  /\ Len(replayed) = Len(toRun)
  /\ resultsStore' = save_eval_set_result(resultsStore, EvalApp, EvalSetId,
                                          eval_case_results, storeClock)
  /\ storeClock' = storeClock + 1
  /\ evalResponses' = Append(evalResponses, Ok(run_eval_results))
  /\ evalPc' = "responded"
  /\ UNCHANGED <<evalSet, evalIds, toRun, replayed, run_eval_results,
                 eval_case_results>>
  /\ UNCHANGED NotEval

\* The response is sent; the server takes the next run_eval request.
EvalRespond ==
  /\ evalPc = "responded"
  /\ Len(evalResponses) < MaxRuns
  /\ evalPc' = "idle"
  /\ UNCHANGED <<evalSet, evalIds, toRun, replayed, run_eval_results,
                 eval_case_results, evalResponses, resultsStore, storeClock>>
  /\ UNCHANGED NotEval

NextEval ==
  \/ \E ids \in SeqsUpTo(CaseIds, MaxIds) : EvalBegin(ids)
  \/ EvalCaseDone
  \/ EvalMissingModule
  \/ EvalFinish
  \/ EvalRespond

\* -------------------------------------------------------- specifications
\* A subsystem that is not running: its variables at their initial values.
IdleV3 ==
  /\ InitV3Vars
  /\ req = [session_id |-> "s1"]
  /\ plan = <<>>
  /\ planFails = FALSE
IdleLive ==
  /\ InitLiveVars
  /\ liveSession = TRUE

IdleRunner == InitRunnerVars
IdleTrace == InitTraceVars
IdleShutdown ==
  /\ InitShutdownVars
  /\ reloadAgents = TRUE
IdleDefs == InitDefVars
IdleV2 == InitV2Vars
IdleEval ==
  /\ InitEvalVars
  /\ evalSet = <<>>

InitV3 ==
  /\ InitV3Vars
  /\ IdleLive /\ IdleRunner /\ IdleTrace /\ IdleShutdown /\ IdleDefs /\ IdleEval /\ IdleV2
InitLive ==
  /\ InitLiveVars
  /\ IdleV3 /\ IdleRunner /\ IdleTrace /\ IdleShutdown /\ IdleDefs /\ IdleEval /\ IdleV2
InitRunner ==
  /\ InitRunnerVars
  /\ IdleV3 /\ IdleLive /\ IdleTrace /\ IdleShutdown /\ IdleDefs /\ IdleEval /\ IdleV2
InitTrace ==
  /\ InitTraceVars
  /\ IdleV3 /\ IdleLive /\ IdleRunner /\ IdleShutdown /\ IdleDefs /\ IdleEval /\ IdleV2
InitShutdown ==
  /\ InitShutdownVars /\ InitShutdownCache
  /\ IdleV3 /\ IdleLive /\ IdleTrace /\ IdleDefs /\ IdleEval /\ IdleV2
InitReload == InitRunner
\* A /runv2 request: its session id, and the events its execution will
\* yield, are those of the request.
InitV2 ==
  /\ InitV3Vars
  /\ InitV2Vars
  /\ IdleLive /\ IdleRunner /\ IdleTrace /\ IdleShutdown /\ IdleDefs /\ IdleEval
InitRun ==
  /\ InitRunCache
  /\ IdleV3 /\ IdleLive /\ IdleTrace /\ IdleShutdown /\ IdleDefs /\ IdleEval /\ IdleV2
InitEval ==
  /\ InitEvalVars
  /\ IdleV3 /\ IdleLive /\ IdleRunner /\ IdleTrace /\ IdleShutdown /\ IdleDefs
  /\ IdleV2

SpecV3 == InitV3 /\ [][NextV3]_vars
SpecV3Fault == InitV3 /\ [][NextV3Fault]_vars
\* The event loop runs every task that is ready: pump_task goes on while
\* run_async has something to give, and queue.get() returns once an item is
\* on the queue.  Nothing obliges the client to stay or to leave.
SpecV3Fair ==
  /\ InitV3
  /\ [][NextV3]_vars
  /\ WF_vars(PumpStart \/ PumpEvent \/ PumpComplete \/ PumpRaise \/ PumpCancelled)
  /\ WF_vars(GenStart \/ GenDequeue)
SpecLive == InitLive /\ [][NextLive]_vars
SpecRunner == InitRunner /\ [][NextRunnerOnly]_vars
SpecReload == InitReload /\ [][NextReload]_vars
SpecRun == InitRun /\ [][NextRun]_vars
SpecTrace == InitTrace /\ [][NextTrace]_vars
SpecEval == InitEval /\ [][NextEval]_vars
SpecV2 == InitV2 /\ [][NextV2]_vars
\* The event loop runs a ready task and the time-out of asyncio.wait fires:
\* a close_runners whose wait can return does return.
SpecShutdown ==
  /\ InitShutdown
  /\ [][NextShutdown]_vars
  /\ WF_vars(CloseWaitReturns)

\* ------------------------------------------------------------------ claims
Last(seq) == seq[Len(seq)]
FrameTypes == {frames[i].event : i \in 1..Len(frames)}
\* The stream ran to its end with the client connected throughout.
StreamEnded == genPc = "closed" /\ ~disconnected
\* The frames of the stream without the keep-alive comments.
NoHeartbeats(seq) == SelectSeq(seq, LAMBDA f : f.event # "keep-alive")
\* The content frames of the planned events, in production order.
PlanFrames == [i \in 1..Len(plan) |-> FrameOf(Ev(i))]

\* C1 (as claimed): once the client has disconnected, the teardown of the
\* forwarding generator never cancels the execution task: pump_agent is
\* never cancelled and, when it ends, it has consumed the whole event
\* sequence of the runner.
C1_DisconnectNeverCancelsExecution ==
  disconnected =>
    /\ pumpPc \notin {"cancelling", "cancelled"}
    /\ pumpPc = "done" => produced = Len(plan)

\* C2 (as claimed): when the execution raises after k events and the client
\* stays connected, the stream holds the k content frames, ends with one
\* frame of type error, and holds no stream_complete frame.
C2_ExecutionErrorEndsWithErrorFrame ==
  (StreamEnded /\ pumpOutcome = "failed") =>
    /\ Last(frames).event = "error"
    /\ "stream_complete" \notin FrameTypes
    /\ Cardinality({i \in 1..Len(frames) : frames[i].event = "error"}) = 1

C4_ReceiverReadsOnAfterInvalidMessage ==
  (invalidSeen /\ lhPc = "waiting" /\ ~clientGone /\ fwdPc = "running") =>
    rcvPc = "reading"

\* C5 (as claimed): as soon as either task has finished, by raising or by
\* completing normally, the handler stops waiting: no state has the handler
\* waiting, one task finished and the other running, with the wait unable
\* to return.
C5_AnyFinishEndsTheWait ==
  (lhPc = "waiting" /\ (\E t \in LiveTasks : TaskFinished(t))
                    /\ (\E t \in LiveTasks : ~TaskFinished(t))) =>
    ENABLED LiveWake

\* C5 (amended): the handler stops waiting as soon as a task has raised, and
\* only when a task has raised or both have ended; a task that completes
\* normally leaves the handler waiting for the other.  Once the handler has
\* returned, the task that was pending has been cancelled: none is running.
C5_RaiseEndsTheWait ==
  /\ (lhPc = "waiting" /\ \E t \in LiveTasks : TaskRaised(t)) => ENABLED LiveWake
  /\ (lhPc \in {"closing", "returned"} /\ liveSession) =>
       \/ \E t \in wakeDone : TaskRaised(t)
       \/ wakePending = {}
  /\ (lhPc = "returned" /\ liveSession) => \A t \in LiveTasks : TaskFinished(t)

\* C5 witness: a task raised while the other was running; the handler woke,
\* and has cancelled the pending task.
C5_Witness ==
  /\ lhPc = "returned"
  /\ caught.kind # "none"
  /\ wakePending # {}
  /\ \E t \in wakePending : TaskPc(t) = "cancelled"

\* C6: over any stretch in which no invalidation of application a arrives,
\* every _get_runner_async(a) call returns the same Runner and at most one
\* Runner of a is constructed (calls that an invalidation overlapped are
\* left out; the stretch restarts at each stale mark of a).
C6_OneRunnerPerApplication ==
  \A a \in Apps :
    /\ Cardinality(epochReturned[a]) <= 1
    /\ epochBuilt[a] <= 1

\* C6 witness: two requests for the same application were inside
\* _get_runner_async together (one suspended in close_runners while the
\* other looked the cache up) and both hold the one Runner constructed.
C6_Witness ==
  \E c, d \in CallIds :
    /\ c # d
    /\ calls[c].pc = "executing" /\ calls[d].pc = "executing"
    /\ calls[c].app = calls[d].app
    /\ calls[c].consumed /\ ~calls[d].consumed
    /\ calls[c].held = calls[d].held
    /\ epochBuilt[calls[c].app] = 1
    /\ epochReturned[calls[c].app] = {calls[c].held}

\* C7 (as claimed): no in-flight execution holds a Runner on which close has
\* been started: the Runner a request obtained stays live while it executes.
C7_NoExecutionHoldsClosedRunner ==
  \A c \in CallIds :
    calls[c].pc = "executing" => runnerState[calls[c].held] = "live"

\* C8 (as claimed): no new Runner of an application is constructed while its
\* old Runner is still closing: at most one Runner per application is live
\* or closing.
C8_AtMostOneLiveRunner ==
  \A a \in Apps :
    Cardinality({r \in RunnerIds :
                   runnerApp[r] = a /\ runnerState[r] \in {"live", "closing"}}) <= 1

\* C9 (as claimed): the _get_runner_async call that consumes the stale mark
\* of an application succeeds whether or not a Runner was cached: it fails
\* only if the agent definition cannot be loaded.
C9_CallAfterInvalidationSucceeds ==
  \A c \in CallIds :
    (calls[c].consumed /\ calls[c].pc = "failed") => calls[c].err = "load"

\* C10 (as claimed): a change notification for the definition of application
\* A marks A stale, and no other name, whichever application get-session
\* last touched.
C10_NotificationInvalidatesChangedApp ==
  [][(watcher.pc = "marking" /\ watcher'.pc = "idle") =>
       runners_to_clean' = runners_to_clean \cup {watcher.changed}]_vars

\* Positions of the terminal frames (stream_complete, error) of the stream.
TerminalAt == {i \in 1..Len(frames) : frames[i].event \in {"stream_complete", "error"}}

\* C11: a /runv3 stream that runs to its end with the client connected holds
\* exactly one terminal frame, stream_complete or error, as its last frame;
\* every stream, disconnected or not, holds at most one terminal frame and
\* nothing (no content frame, no heartbeat) after it.
C11_OneTerminalFrameLast ==
  /\ Cardinality(TerminalAt) <= 1
  /\ TerminalAt \subseteq {Len(frames)}
  /\ TerminalAt # {} => genPc = "closed"
  /\ StreamEnded => TerminalAt = {Len(frames)}

\* C11 witness: the execution failed and left two sentinels on the queue;
\* the stream ended on the first with one terminal frame after its content.
C11_Witness ==
  /\ StreamEnded
  /\ pumpOutcome = "failed"
  /\ queue = <<Sentinel>>
  /\ Len(frames) > 2
  /\ Last(frames).event = "stream_complete"

\* C12: a heartbeat time-out (the queue stayed empty for the interval) adds
\* one keep-alive comment to the stream and nothing else: no item leaves the
\* queue, the generator goes on waiting, the execution is untouched; a
\* keep-alive is never the frame an ended stream closes on; and while the
\* queue stays empty the next time-out can fire again.
C12_HeartbeatOnlyKeepsAlive ==
  /\ [][heartbeats' # heartbeats =>
          /\ queue = <<>> /\ queue' = queue
          /\ Len(frames') = Len(frames) + 1
          /\ Last(frames').event = "keep-alive"
          /\ SubSeq(frames', 1, Len(frames)) = frames
          /\ genPc = "waiting" /\ genPc' = "waiting"
          /\ produced' = produced /\ pumpPc' = pumpPc]_vars
  /\ [](StreamEnded => Last(frames).event # "keep-alive")
  /\ []((genPc = "waiting" /\ queue = <<>> /\ heartbeats < MaxHeartbeats)
          => ENABLED GenHeartbeat)

\* C12 witness: two silent intervals in a row gave two keep-alives, then the
\* content and the terminal frame followed.
C12_Witness ==
  /\ StreamEnded
  /\ Len(frames) >= 5
  /\ frames[2].event = "keep-alive"
  /\ frames[3].event = "keep-alive"
  /\ frames[4].event \in {"agent_event", "render_session"}

\* seq a is seq b with some elements left out (order kept).
RECURSIVE IsSubseq(_, _)
IsSubseq(a, b) ==
  IF a = <<>> THEN TRUE
  ELSE IF b = <<>> THEN FALSE
  ELSE IF Head(a) = Head(b) THEN IsSubseq(Tail(a), Tail(b))
  ELSE IsSubseq(a, Tail(b))

\* C13 (as claimed): an export never changes what was retrievable before
\* it: every event id that had an entry keeps the same attributes, and the
\* spans a session lookup returned are still returned, in the same order.
C13_ExportIsPurelyAdditive ==
  [][/\ \A e \in EventIdValues :
          trace_dict[e] # NoEntry => trace_dict'[e] = trace_dict[e]
     /\ \A x \in SessionIdValues :
          IsSubseq(get_finished_spans(x), get_finished_spans(x)')]_vars

\* The span exported n-th.
Recorded(n) == spans[n]

\* C14: an event id has an entry only if a recorded span with an allow-listed
\* name (call_llm, send_data, execute_tool...) carried it, and the entry
\* holds the attributes of such a span; a span outside the allow-list or
\* without an event id is retrievable under no event id; an event id no
\* such span carried gives not-found.
C14_EventLookupOnlyAllowListed ==
  /\ \A e \in EventIdValues :
       get_trace_dict(e) # TraceNotFound =>
         LET n == get_trace_dict(e).span_id
         IN /\ n \in 1..Len(spans)
            /\ e # NoId
            /\ Recorded(n).ev = e
            /\ \/ Recorded(n).name \in {<<"call_llm">>, <<"send_data">>}
               \/ Recorded(n).name[1] = "execute_tool"
            /\ get_trace_dict(e).trace_id = Recorded(n).trace_id
            /\ get_trace_dict(e).sess = Recorded(n).sess
  /\ \A e \in EventIdValues :
       (\A n \in 1..Len(spans) :
          \/ Recorded(n).ev # e
          \/ Recorded(n).name \in {<<"invoke_agent">>}) => get_trace_dict(e) = TraceNotFound

\* C14 witness: e1 is retrievable from an execute_tool span, while a span
\* outside the allow-list carried e2, which gives not-found.
C14_Witness ==
  /\ Len(spans) = MaxSpans
  /\ get_trace_dict("e1") # TraceNotFound
  /\ Recorded(get_trace_dict("e1").span_id).name = <<"execute_tool", "search">>
  /\ get_trace_dict("e2") = TraceNotFound
  /\ \E n \in 1..Len(spans) :
       Recorded(n).ev = "e2" /\ Recorded(n).name = <<"invoke_agent">>

\* C15 (as claimed): a session lookup returns exactly the call_llm spans that
\* carry the session id, in recorded order; no span of another name.
C15_SessionLookupOnlyModelSpans ==
  \A x \in SessionIdValues :
    get_finished_spans(x) =
      SelectSeq(spans, LAMBDA sp : sp.name = <<"call_llm">> /\ sp.sess = x /\ x # NoId)

\* The trace ids of the call_llm spans that carried session id x.
SessionTraces(x) ==
  {spans[n].trace_id : n \in {i \in 1..Len(spans) :
                                 spans[i].name = <<"call_llm">> /\ spans[i].sess = x}}

\* C15 (amended): a session lookup returns, in recorded order, every recorded
\* span, whatever its name, whose trace id is the trace id of a call_llm
\* span that carried the session id; a session no call_llm span carried
\* gives the empty list.
C15_SessionLookupReturnsItsTraces ==
  /\ \A x \in SessionIdValues \ {NoId} :
       get_finished_spans(x) = SelectSeq(spans, LAMBDA sp : sp.trace_id \in SessionTraces(x))
  /\ get_finished_spans(NoId) = <<>>

\* C15 witness: a tool span was recorded first, then a call_llm span of the
\* same trace that carried the session id; the lookup returns both, in the
\* order recorded.
C15_Witness ==
  /\ Len(get_finished_spans("s1")) = 2
  /\ get_finished_spans("s1")[1].name = <<"execute_tool", "search">>
  /\ get_finished_spans("s1")[1].span_id = 1
  /\ get_finished_spans("s1")[2].name = <<"call_llm">>
  /\ get_finished_spans("s1")[2].span_id = 2

\* C16: with a session that does not exist the handler accepts the socket
\* before it closes it, sends one close frame with code 1002 and reason
\* "Session not found" (1002 is neither the normal-closure code 1000 nor the
\* internal-error code 1011), and returns: the forwarder and the receiver
\* are never created, so no Runner is obtained.
C16_MissingSessionAcceptThenClose ==
  /\ closeSent # <<>> => wsAccepted
  /\ SESSION_NOT_FOUND_CODE \notin {1000, WEBSOCKET_INTERNAL_ERROR_CODE}
  /\ ~liveSession =>
       /\ fwdPc = "none" /\ rcvPc = "none"
       /\ liveQueue = <<>> /\ liveEvents = 0
       /\ lhPc \in {"connect", "check", "returned"}
       /\ lhPc = "returned" <=> closeSent = <<[code |-> 1002, len |-> 17]>>
       /\ lhPc # "returned" => closeSent = <<>>

\* C16 witness: the session was missing; the socket was accepted, closed
\* with 1002, and the handler has returned.
C16_Witness ==
  /\ ~liveSession
  /\ wsAccepted
  /\ lhPc = "returned"
  /\ Len(closeSent) = 1
  /\ closeSent[1].code = SESSION_NOT_FOUND_CODE

\* The handler has left asyncio.wait in a session that existed.
LiveWoken == liveSession /\ lhPc \in {"closing", "returned"}

\* C17 (as claimed): when a task of `done` ended with an exception other
\* than a client disconnect, the handler closes the socket once with 1011
\* and the exception text cut to 123 characters; when a task of `done` ended
\* with a client disconnect, it sends no close frame.
C17_AnyErrorClosesWith1011 ==
  LiveWoken =>
    /\ (\E t \in wakeDone : TaskRaised(t) /\ TaskExc(t).kind = "error") =>
         /\ Len(closeSent) = 1
         /\ closeSent[1].code = 1011
         /\ closeSent[1].len <= 123
    /\ (\E t \in wakeDone : TaskRaised(t) /\ TaskExc(t).kind = "disconnect") =>
         closeSent = <<>>

\* C17 (amended): the handler acts on the exception task.result() re-raises,
\* that of one task of `done`.  An exception other than a client disconnect:
\* one close frame, code 1011, reason the exception text cut to at most 123
\* characters.  A client disconnect, or no exception: no close frame.  In
\* each case, once the handler has returned, no task of `pending` runs.
C17_ReraisedErrorClosesWith1011 ==
  LiveWoken =>
    /\ caught.kind = "none" <=> \A t \in wakeDone : ~TaskRaised(t)
    /\ caught.kind # "none" => \E t \in wakeDone : TaskExc(t) = caught
    /\ caught.kind = "error" =>
         /\ Len(closeSent) = 1
         /\ closeSent[1].code = 1011
         /\ closeSent[1].len <= 123
         /\ closeSent[1].len = IF caught.len <= 123 THEN caught.len ELSE 123
    /\ caught.kind \in {"disconnect", "none"} => closeSent = <<>>
    /\ lhPc = "returned" =>
         \A t \in wakePending : TaskPc(t) \in {"cancelled", "done", "raised"}

\* C17 witness: a task raised an error with a text over the limit while the
\* other was running; the close frame carries 123 characters and the
\* pending task is cancelled.
C17_Witness ==
  /\ lhPc = "returned"
  /\ caught.kind = "error"
  /\ caught.len = 124
  /\ closeSent = <<[code |-> 1011, len |-> 123]>>
  /\ \E t \in wakePending : TaskPc(t) = "cancelled"

\* C18: at shutdown a close task is started for every Runner in the cache,
\* all of them before any is waited for (they run concurrently: a failed or
\* unfinished close leaves the others free to finish); no exception of a
\* close leaves the shutdown sequence; and a shutdown that has begun always
\* ends.
C18_ShutdownClosesAllAndEnds ==
  /\ [][(shutPc = "serving" /\ shutPc' # "serving") =>
          /\ \A a \in Apps : runner_dict[a] # NoRunner =>
                closeTask'[runner_dict[a]] = "running"
          /\ ~observerAlive']_vars
  /\ [](\A r, q \in RunnerIds :
          (shutPc = "closing" /\ closeTask[r] \in {"failed", "running"}
             /\ closeTask[q] = "running") => ENABLED CloseTaskOk(q))
  /\ [](shutPc = "exited" =>
          /\ \A a \in Apps : runner_dict[a] # NoRunner =>
                closeTask[runner_dict[a]] \in {"ok", "failed", "cancelled"}
          /\ propagated \in {"none", "lifespan"}
          /\ propagated = "lifespan" => lifespanRaised)
  /\ (shutPc # "serving") ~> (shutPc = "exited")

\* C18 witness: two Runners were cached; the close of one failed, the close
\* of the other succeeded, and shutdown ended with no exception.
C18_Witness ==
  /\ shutPc = "exited"
  /\ propagated = "none"
  /\ \E r, q \in RunnerIds :
       /\ closeTask[r] = "failed"
       /\ closeTask[q] = "ok"
       /\ runnerState[q] = "closed"

\* Request c has just failed in load_agent.
LoadFails(c) ==
  /\ calls[c].pc # "failed"
  /\ calls'[c].pc = "failed"
  /\ calls'[c].err = "load"

\* C19 (as claimed): a _get_runner_async(a) call that fails in load_agent
\* adds no cache entry for a and leaves the entries of the other
\* applications as they were; and a later call for a fails only if the
\* definition still cannot be loaded, otherwise it constructs and returns a
\* Runner.
C19_LoadFailureFailsOnlyThatRequest ==
  /\ [][\A c \in CallIds : LoadFails(c) =>
          /\ runner_dict'[calls'[c].app] = NoRunner
          /\ \A b \in Apps \ {calls'[c].app} : runner_dict'[b] = runner_dict[b]]_vars
  /\ [](\A c, d \in CallIds :
          (/\ d < c
           /\ calls[d].pc = "failed" /\ calls[d].err = "load"
           /\ calls[c].app = calls[d].app
           /\ calls[c].pc = "failed") => calls[c].err = "load")

\* Request c is suspended in close_runners on the stale Runner of its
\* application, and that close has not finished.
ClosingStale(c) ==
  /\ calls[c].pc = "closing"
  /\ runnerState[calls[c].popped] = "closing"

\* The next step of request d can be taken now.
CanStep(d) ==
  CASE calls[d].pc = "idle" ->
         (\A e \in CallIds : e < d => calls[e].pc # "idle") =>
           \A b \in Apps : ENABLED CallBegin(d, b)
    [] calls[d].pc = "closing" ->
         ENABLED CloseFinish(calls[d].popped) \/ ENABLED CallResume(d)
    [] calls[d].pc = "loaded" -> ENABLED CallConstruct(d)
    [] calls[d].pc \in {"executing", "failed"} -> ENABLED CallEnd(d)
    [] OTHER -> TRUE

\* C20: while a call is suspended closing the stale Runner of A and the
\* event loop is between the synchronous sections of the requests, every
\* other request (one for another application B included) can take its next
\* step (enter _get_runner_async, construct, execute, respond): none waits
\* for the close of A.
C20_OtherApplicationsNotDelayed ==
  \A c \in CallIds :
    (ClosingStale(c) /\ \A e \in CallIds : calls[e].pc # "loaded") =>
      \A d \in CallIds \ {c} : CanStep(d)

\* C20 witness: the first request is still suspended closing the stale
\* Runner of its application; a later request for another application has
\* meanwhile obtained its own live Runner and can send its response.
C20_Witness ==
  \E c, d \in CallIds :
    /\ c < d
    /\ ClosingStale(c)
    /\ calls[d].pc = "executing"
    /\ calls[d].app # calls[c].app
    /\ runnerState[calls[d].held] = "live"
    /\ ENABLED CallEnd(d)

\* C21 (as claimed): when one or more change notifications for application
\* A have been handled since the last _get_runner_async call for A and a
\* Runner of A is cached, the next _get_runner_async(A) closes that Runner --
\* once: it is popped from the cache as the close starts -- and goes on to
\* rebuild; it never returns the cached Runner.
C21_NotificationsCauseOneRebuild ==
  [][\A c \in CallIds, a \in Apps :
       (DefCallBegin(c, a) /\ noted[a] >= 1 /\ InDict(a)) =>
         /\ calls'[c].pc = "closing"
         /\ calls'[c].popped = runner_dict[a]
         /\ runnerState'[runner_dict[a]] = "closing"
         /\ ~InDict(a)']_vars

\* C30 (as claimed): a _get_runner_async(A) that starts after on_modified
\* for A has returned, and returns a Runner, returns one built from a
\* definition at least as new as the one on disk when the handler returned.
C30_NoStaleDefinitionSurvives ==
  \A c \in CallIds :
    calls[c].pc = "executing" => runnerVer[calls[c].held] >= needVer[c]

\* The Event holds a function-call part named render_session.
HasRenderCall(parts) ==
  \E i \in 1..Len(parts) : parts[i].functionCall = "render_session"

\* The first function-call part named render_session of the Event.
FirstRenderCall(parts) ==
  parts[CHOOSE i \in 1..Len(parts) :
          /\ parts[i].functionCall = "render_session"
          /\ \A j \in 1..(i - 1) : parts[j].functionCall # "render_session"]

\* The generator dequeues an Event (not the sentinel) in this step.
DequeuesEvent ==
  /\ GenDequeue
  /\ Head(queue) # Sentinel

\* C22 (as claimed): every dequeued Event that holds a function-call part
\* named render_session is emitted as exactly one render_session frame
\* carrying the url of such a call, never as an agent_event frame; every
\* other Event as exactly one agent_event frame carrying its serialization.
C22_RenderCallAlwaysRenderFrame ==
  [][DequeuesEvent =>
       LET item == Head(queue)
           f == Last(frames')
       IN /\ frames' = Append(frames, f)
          /\ f.ev = item.id
          /\ IF HasRenderCall(item.parts)
             THEN /\ f.event = "render_session"
                  /\ \E i \in 1..Len(item.parts) :
                       /\ item.parts[i].functionCall = "render_session"
                       /\ f.url = item.parts[i].url
             ELSE /\ f.event = "agent_event"
                  /\ f.payload = model_dump_json(item)]_vars

\* C22 (amended): a dequeued Event whose first render_session call carries a
\* non-empty url is emitted as exactly one render_session frame carrying
\* that url; every other Event -- one whose first render_session call has no
\* url or an empty one included -- as exactly one agent_event frame carrying
\* its serialization.
C22_RenderCallWithUrlRenderFrame ==
  [][DequeuesEvent =>
       LET item == Head(queue)
           f == Last(frames')
       IN /\ frames' = Append(frames, f)
          /\ f.ev = item.id
          /\ IF HasRenderCall(item.parts) /\ FirstRenderCall(item.parts).url # NoUrl
             THEN /\ f.event = "render_session"
                  /\ f.url = FirstRenderCall(item.parts).url
             ELSE /\ f.event = "agent_event"
                  /\ f.payload = model_dump_json(item)]_vars

\* C22 witness: the stream holds a render_session frame for a call found in
\* the second part of its Event, and an agent_event frame for an Event whose
\* render_session call has no url.
C22_Witness ==
  \E i, j \in 1..Len(frames) :
    /\ frames[i].event = "render_session"
    /\ frames[i].url = "u2"
    /\ frames[j].event = "agent_event"
    /\ HasRenderCall(frames[j].payload.parts)

\* C23: the first frame of every /runv3 stream is stream_start carrying the
\* session id of the request, and no later frame is a stream_start; the step
\* that emits it takes nothing from the queue and does not wait for the
\* execution, whatever the execution has already enqueued.
C23_StreamStartFirst ==
  /\ [](frames # <<>> =>
          /\ frames[1].event = "stream_start"
          /\ frames[1].session_id = req.session_id
          /\ \A i \in 2..Len(frames) : frames[i].event # "stream_start")
  /\ [][(frames = <<>> /\ frames' # <<>>) =>
          /\ Len(frames') = 1
          /\ queue' = queue
          /\ <<pumpPc, pumpOutcome, produced>>' = <<pumpPc, pumpOutcome, produced>>]_vars

\* C23 witness: the execution put its events and failed before the generator
\* was iterated; the stream of the request for session s2 then starts with
\* stream_start, the queue still full.
C23_Witness ==
  /\ req.session_id = "s2"
  /\ Len(plan) >= 1
  /\ pumpOutcome = "failed"
  /\ Len(queue) = Len(plan) + 2
  /\ Len(frames) = 1
  /\ frames[1].event = "stream_start"

\* Number of times case e was replayed for the request being served.
TimesReplayed(e) == Cardinality({i \in 1..Len(replayed) : replayed[i] = e})

\* The request being served has been answered with its results.
EvalAnswered ==
  /\ evalPc = "responded"
  /\ Last(evalResponses).status_code = 200

\* C24: a run_eval answered with results has replayed, with an empty
\* eval_ids, every case of the eval set exactly once; with a non-empty
\* eval_ids, each case of the set whose id is listed exactly once, however
\* often the id is listed, and no other case; the response holds exactly one
\* result per case replayed, in the order of the replays.
C24_RunsSelectedCasesOnce ==
  EvalAnswered =>
    /\ \A e \in CaseIds :
         TimesReplayed(e) =
           IF /\ \E i \in 1..Len(evalSet) : evalSet[i] = e
              /\ (evalIds = <<>> \/ \E i \in 1..Len(evalIds) : evalIds[i] = e)
           THEN 1 ELSE 0
    /\ LET results == Last(evalResponses).results
       IN /\ Len(results) = Len(replayed)
          /\ \A i \in 1..Len(results) : results[i].eval_id = replayed[i]
          /\ \A i, j \in 1..Len(results) :
               results[i].session_id = results[j].session_id => i = j

\* C24 witness: a request listing c1 twice is answered with one result, for
\* c1, by an eval set that holds c1 and another case.
C24_Witness ==
  /\ EvalAnswered
  /\ evalIds = <<"c1", "c1">>
  /\ Len(evalSet) = 2
  /\ replayed = <<"c1">>
  /\ Len(Last(evalResponses).results) = 1

\* The eval set results of the store that hold a result for case e.
StoredFor(e) ==
  {s \in resultsStore :
     \E i \in 1..Len(s.eval_case_results) : s.eval_case_results[i].eval_id = e}

\* The requests so far that were answered with results.
AnsweredRuns == {n \in 1..Len(evalResponses) : evalResponses[n].status_code = 200}

AbortedRuns == {n \in 1..Len(evalResponses) : evalResponses[n].status_code = 400}

\* C26: a run_eval in which replaying a case raised the missing-module
\* error is answered with 400 and no per-case result, and the store holds no
\* result of a replay of that request, those of the cases replayed before
\* the failing one included.
C26_MissingModuleAbortsBatch ==
  /\ [][EvalMissingModule =>
          /\ Last(evalResponses') = BadRequest
          /\ resultsStore' = resultsStore]_vars
  /\ [](\A n \in AbortedRuns :
          /\ evalResponses[n].results = <<>>
          /\ \A s \in resultsStore :
               \A i \in 1..Len(s.eval_case_results) :
                 s.eval_case_results[i].session_id[1] # n)

\* C26 witness: the second request replayed one case, then failed on the
\* next one with the missing-module error; the store holds the batch of the
\* first request only.
C26_Witness ==
  /\ evalPc = "responded"
  /\ Len(evalResponses) = 2
  /\ evalResponses[1].status_code = 200
  /\ evalResponses[2].status_code = 400
  /\ Len(replayed) = 2
  /\ Len(eval_case_results) = 1
  /\ Cardinality(resultsStore) = 1

\* C27: a request to /run, /runv2, /run_sse or /runv3 whose session does not
\* exist is answered with not-found and holds no Runner; the step leaves the
\* runner cache, the stale marks, the Runners and the agent loader as they
\* were (no Runner is popped, closed or constructed), starts no execution
\* and produces no frame and no event.
C27_MissingSessionFailsBeforeRunner ==
  /\ [][\A ep \in Endpoints, c \in CallIds, a \in Apps :
          RunSessionNotFound(ep, c, a) =>
            /\ calls'[c].pc = "failed"
            /\ calls'[c].err = "NotFound"
            /\ UNCHANGED <<runner_dict, runners_to_clean, runnerState, runnerApp,
                           nextId, loaderCache>>
            /\ UNCHANGED <<pumpPc, produced, queue, frames>>]_vars
  /\ [](\A c \in CallIds :
          calls[c].err = "NotFound" =>
            /\ calls[c].pc = "failed"
            /\ calls[c].held = NoRunner
            /\ calls[c].popped = NoRunner
            /\ ~calls[c].consumed)

\* C27 witness: a request for an application whose cached Runner is marked
\* stale was answered with not-found: the Runner is still cached and live,
\* the mark still set.
C27_Witness ==
  \E c \in CallIds :
    /\ calls[c].err = "NotFound"
    /\ calls[c].app \in runners_to_clean
    /\ InDict(calls[c].app)
    /\ runnerState[runner_dict[calls[c].app]] = "live"

\* C28: once pump_agent has ended -- by completion, by an exception of the
\* runner or by cancellation -- a sentinel is the last item it put: the
\* queue ends with one unless the generator has already left its loop, and
\* no Event follows a sentinel on the queue; hence, if the client stays
\* connected, the generator eventually reads a sentinel, leaves the loop and
\* ends the stream with a terminal frame.
C28_SentinelAlwaysEndsStream ==
  /\ [](PumpDone(pumpPc) =>
          \/ genPc = "closed"
          \/ queue # <<>> /\ Last(queue) = Sentinel)
  /\ [](\A i, j \in 1..Len(queue) :
          (i < j /\ queue[i] = Sentinel) => queue[j] = Sentinel)
  /\ (PumpDone(pumpPc) ~>
        \/ disconnected
        \/ /\ genPc = "closed"
           /\ frames # <<>>
           /\ Last(frames).event \in {"stream_complete", "error"})

\* C28 witness: the execution failed while the generator was waiting and
\* sending heartbeats; the generator then read the sentinel and ended the
\* stream with its terminal frame, the client still connected.
C28_Witness ==
  /\ pumpOutcome = "failed"
  /\ ~disconnected
  /\ heartbeats >= 1
  /\ genPc = "closed"
  /\ Last(frames).event = "stream_complete"

\* C29: every Runner constructed so far is the live cache entry of its
\* application or has had close invoked on it; a cache entry changes only by
\* being popped with close invoked on the popped Runner, and a newly
\* constructed Runner is stored only where the cache held none.
C29_NoRunnerLeaked ==
  /\ [](\A r \in RunnerIds :
          runnerState[r] # "unbuilt" =>
            \/ runner_dict[runnerApp[r]] = r /\ runnerState[r] = "live"
            \/ runner_dict[runnerApp[r]] # r /\ runnerState[r] \in {"closing", "closed"})
  /\ [][\A a \in Apps :
          runner_dict'[a] # runner_dict[a] =>
            IF InDict(a)
            THEN /\ runner_dict'[a] = NoRunner
                 /\ runnerState[runner_dict[a]] = "live"
                 /\ runnerState'[runner_dict[a]] = "closing"
            ELSE /\ runnerState[runner_dict'[a]] = "unbuilt"
                 /\ runnerState'[runner_dict'[a]] = "live"]_vars

\* C29 witness: the first Runner of an application was popped and closed
\* after a change and a call built the Runner now cached: two Runners of the
\* application were constructed, one closed, one the cache entry, and every
\* request has ended.
C29_Witness ==
  \E r, s \in RunnerIds :
    /\ r < s
    /\ runnerApp[r] = runnerApp[s]
    /\ runnerState[r] = "closed"
    /\ runnerState[s] = "live"
    /\ runner_dict[runnerApp[s]] = s
    /\ \A c \in CallIds : calls[c].pc = "ended"

V2TerminalAt ==
  {i \in 1..Len(v2Frames) : v2Frames[i].event \in {"stream_complete", "error"}}

\* C32: a /runv2 stream starts with stream_start carrying the session id of
\* the request; then comes one data frame per Event taken from the
\* execution, in production order, each carrying the Event's serialization;
\* at most one terminal frame, and nothing after it.  When the execution
\* completes normally the stream is stream_start, the data frames of all its
\* Events, stream_complete; when it raises, stream_start, the data frames,
\* one error frame carrying the exception's message, and no stream_complete.
\* A stream that ended with the client connected ended in one of these ways.
C32_V2StreamIsFramed ==
  /\ [](/\ v2Frames # <<>> =>
             /\ v2Frames[1].event = "stream_start"
             /\ v2Frames[1].session_id = req.session_id
        /\ \A i \in 2..Len(v2Frames) : v2Frames[i].event # "stream_start"
        /\ \A i \in 1..v2Produced :
             /\ v2Frames[i + 1].event = "data"
             /\ v2Frames[i + 1].payload = [id |-> i, parts |-> plan[i]]
        /\ Cardinality({i \in 1..Len(v2Frames) : v2Frames[i].event = "data"}) = v2Produced
        /\ Cardinality(V2TerminalAt) <= 1
        /\ V2TerminalAt \subseteq {Len(v2Frames)}
        /\ v2Outcome = "completed" =>
             /\ v2Produced = Len(plan)
             /\ Len(v2Frames) = Len(plan) + 2
             /\ Last(v2Frames).event = "stream_complete"
        /\ v2Outcome = "failed" =>
             /\ Len(v2Frames) = v2Produced + 2
             /\ Last(v2Frames).event = "error"
             /\ \A i \in 1..Len(v2Frames) : v2Frames[i].event # "stream_complete"
        /\ (v2Pc = "closed" /\ ~v2Disconnected) =>
             /\ v2Outcome \in {"completed", "failed"}
             /\ Cardinality(V2TerminalAt) = 1)
  /\ [][\A msg \in ExcMessages :
          V2Raise(msg) =>
            /\ Last(v2Frames').event = "error"
            /\ Last(v2Frames').error = msg]_vars

\* C32 witness: the execution of the request for session s2 raised
\* "timeout" after two Events: the stream is stream_start, two data frames
\* and the error frame with that message.
C32_Witness ==
  /\ req.session_id = "s2"
  /\ v2Outcome = "failed"
  /\ ~v2Disconnected
  /\ v2Produced = 2
  /\ Len(v2Frames) = 4
  /\ v2Frames[4].event = "error"
  /\ v2Frames[4].error = "timeout"

====
